---- MODULE Spec2Model ----
(***************************************************************************)
(* Pedigree comparison: metrics extraction (pedigree_core,                 *)
(* pedigree_json_comparator) and the tiered scorer (pedigree_scoring,      *)
(* pedigree_json_comparator).                                              *)
(*                                                                         *)
(* Python floats are modelled as exact rationals [num, den] in lowest      *)
(* terms: 1.2 is 6/5, 0.50 is 1/2, 0.63 is 63/100.  Python dicts built     *)
(* from a Counter are functions whose domain is the set of keys present.   *)
(***************************************************************************)
EXTENDS Integers, Sequences, FiniteSets, TLC

VARIABLES
    variant,          \* which module's functions run: "pedigree_scoring" | "pedigree_json_comparator"
    golden_nodes,     \* node sequence extracted from the golden document
    test_nodes,       \* node sequence extracted from the candidate document
    golden_metrics,   \* compute_metrics(golden_nodes), or a snapshot handed to the scorer
    test_metrics,
    golden_ext,       \* compute_extended_metrics(golden_nodes), or a snapshot handed to the scorer
    test_ext,
    score_data,       \* what calculate_comprehensive_score returned for the four snapshots
    n_levels,         \* the total_levels the weights are being computed for
    weights,          \* the weights computed so far, for the levels 0, 1, ... in turn
    golden_data,      \* the golden file of the pair at hand, as load_json_file finds it
    test_data,        \* the candidate (detectron) file of the pair at hand
    results,          \* the rows the batch driver has appended
    pair_index,       \* the index i the batch driver's loop has reached
    raised,           \* the exception that ended the last run, and the function that raised it
    calls,            \* how many calls of the metric functions and the scorer were made one by one
    spreadsheet       \* the rows written to batch_comparison_results.xlsx, if it was written

vars == <<variant, golden_nodes, test_nodes, golden_metrics, test_metrics,
          golden_ext, test_ext, score_data, n_levels, weights,
          golden_data, test_data, results, pair_index, raised, calls, spreadsheet>>

\* the variables of the weight table, untouched by a comparison
weightVars == <<n_levels, weights>>

\* the variables of the batch driver and of the call count
driverVars == <<golden_data, test_data, results, pair_index, raised, calls,
                spreadsheet>>

\* no exception
NotRaised == [in |-> "", error |-> "none"]

\* the exception of class error raised in function fn
Raised(fn, error) == [in |-> fn, error |-> error]

\* no file at hand
NoData == [kind |-> "none"]

\* no spreadsheet was written
NotWritten == [written |-> FALSE]

\* the driver has not run and no call was counted
DriverIdle ==
    /\ golden_data = NoData
    /\ test_data = NoData
    /\ results = <<>>
    /\ pair_index = 0
    /\ raised = NotRaised
    /\ calls = 0
    /\ spreadsheet = NotWritten

----------------------------------------------------------------------------
(* Exact rational arithmetic standing for Python float arithmetic.         *)

Abs(x) == IF x < 0 THEN -x ELSE x

Max2(a, b) == IF a >= b THEN a ELSE b

RECURSIVE Gcd(_, _)
Gcd(a, b) == IF b = 0 THEN a ELSE Gcd(b, a % b)

\* the rational n/d (d > 0) in lowest terms
Rat(n, d) ==
    LET g == Gcd(Abs(n), d)
    IN  [num |-> n \div g, den |-> d \div g]

RInt(n) == [num |-> n, den |-> 1]

\* sums and products are formed over the least common denominator and after
\* cross-cancelling, which keeps every intermediate value small
RAdd(a, b) ==
    LET l == (a.den \div Gcd(a.den, b.den)) * b.den
    IN  Rat(a.num * (l \div a.den) + b.num * (l \div b.den), l)

RSub(a, b) == RAdd(a, [num |-> -b.num, den |-> b.den])

RMul(a, b) ==
    LET g1 == Gcd(Abs(a.num), b.den)
        g2 == Gcd(Abs(b.num), a.den)
    IN  Rat((a.num \div g1) * (b.num \div g2), (a.den \div g2) * (b.den \div g1))

\* a / b for b > 0
RDiv(a, b) == RMul(a, [num |-> b.den, den |-> b.num])

\* a <= b, compared over the least common denominator
RLe(a, b) ==
    LET l == (a.den \div Gcd(a.den, b.den)) * b.den
    IN  a.num * (l \div a.den) <= b.num * (l \div b.den)

RLt(a, b) == ~RLe(b, a)

RMax(a, b) == IF RLe(b, a) THEN a ELSE b

RECURSIVE Pow(_, _)
Pow(b, e) == IF e = 0 THEN 1 ELSE b * Pow(b, e - 1)

RECURSIVE SumOver(_, _)
\* sum of the rationals f[k] for k in S
SumOver(f, S) ==
    IF S = {} THEN RInt(0)
    ELSE LET k == CHOOSE x \in S : TRUE
         IN  RAdd(f[k], SumOver(f, S \ {k}))

RECURSIVE SumInt(_, _)
\* sum of the integers f[k] for k in S
SumInt(f, S) ==
    IF S = {} THEN 0
    ELSE LET k == CHOOSE x \in S : TRUE
         IN  f[k] + SumInt(f, S \ {k})

\* dict.get(key, default)
Get(d, key, default) == IF key \in DOMAIN d THEN d[key] ELSE default

----------------------------------------------------------------------------
(* Strings that are transformed character by character (shading patterns   *)
(* and disease tokens) are sequences of one-character strings.             *)

LowerCase == <<"a", "b", "c", "d", "e", "f", "g", "h", "i", "j", "k", "l", "m",
               "n", "o", "p", "q", "r", "s", "t", "u", "v", "w", "x", "y", "z">>

UpperCase == <<"A", "B", "C", "D", "E", "F", "G", "H", "I", "J", "K", "L", "M",
               "N", "O", "P", "Q", "R", "S", "T", "U", "V", "W", "X", "Y", "Z">>

\* str.upper() on one character
UpperChar(c) ==
    IF \E i \in 1..Len(LowerCase) : LowerCase[i] = c
    THEN UpperCase[CHOOSE i \in 1..Len(LowerCase) : LowerCase[i] = c]
    ELSE c

\* str.lower() on one character (used to write the inputs)
LowerChar(c) ==
    IF \E i \in 1..Len(UpperCase) : UpperCase[i] = c
    THEN LowerCase[CHOOSE i \in 1..Len(UpperCase) : UpperCase[i] = c]
    ELSE c

\* str.upper()
Upper(str) == [i \in 1..Len(str) |-> UpperChar(str[i])]

Lower(str) == [i \in 1..Len(str) |-> LowerChar(str[i])]

StartsWith(str, old) ==
    /\ Len(old) <= Len(str)
    /\ SubSeq(str, 1, Len(old)) = old

RECURSIVE Replace(_, _, _)
\* str.replace(old, new) for a non-empty old: every occurrence, left to right
Replace(str, old, new) ==
    IF str = <<>> THEN <<>>
    ELSE IF StartsWith(str, old)
         THEN new \o Replace(SubSeq(str, Len(old) + 1, Len(str)), old, new)
         ELSE <<Head(str)>> \o Replace(Tail(str), old, new)

RECURSIVE JoinWith(_, _)
\* sep.join(words)
JoinWith(words, sep) ==
    IF words = <<>> THEN <<>>
    ELSE IF Len(words) = 1 THEN words[1]
    ELSE words[1] \o sep \o JoinWith(Tail(words), sep)

\* the token WORD_WORD_..._WORD
Tok(words) == JoinWith(words, <<"_">>)

W_CIRCLE == <<"C", "I", "R", "C", "L", "E">>

W_SQUARE == <<"S", "Q", "U", "A", "R", "E">>

W_BOTTOM == <<"B", "O", "T", "T", "O", "M">>

W_HALF == <<"H", "A", "L", "F">>

W_FILLED == <<"F", "I", "L", "L", "E", "D">>

W_CHECKERED == <<"C", "H", "E", "C", "K", "E", "R", "E", "D">>

W_CROSS == <<"C", "R", "O", "S", "S">>

W_DIAGONAL == <<"D", "I", "A", "G", "O", "N", "A", "L">>

W_STROKES == <<"S", "T", "R", "O", "K", "E", "S">>

W_HORIZONTAL == <<"H", "O", "R", "I", "Z", "O", "N", "T", "A", "L">>

W_LEFT == <<"L", "E", "F", "T">>

W_RIGHT == <<"R", "I", "G", "H", "T">>

W_TOP == <<"T", "O", "P">>

W_QUARTER == <<"Q", "U", "A", "R", "T", "E", "R">>

W_VERTICAL == <<"V", "E", "R", "T", "I", "C", "A", "L">>

W_female == <<"f", "e", "m", "a", "l", "e">>

W_HATCH == <<"H", "A", "T", "C", "H">>

model_disease_patterns ==
    {Tok(<<W_CIRCLE, W_BOTTOM, W_HALF, W_FILLED>>),
     Tok(<<W_CIRCLE, W_CHECKERED>>),
     Tok(<<W_CIRCLE, W_CROSS, W_FILLED>>),
     Tok(<<W_CIRCLE, W_DIAGONAL, W_CHECKERED>>),
     Tok(<<W_CIRCLE, W_DIAGONAL, W_STROKES>>),
     Tok(<<W_CIRCLE, W_FILLED>>),
     Tok(<<W_CIRCLE, W_HORIZONTAL, W_STROKES>>),
     Tok(<<W_CIRCLE, W_LEFT, W_HALF, W_FILLED>>),
     Tok(<<W_CIRCLE, W_RIGHT, W_HALF, W_FILLED>>),
     Tok(<<W_CIRCLE, W_TOP, W_HALF, W_FILLED>>),
     Tok(<<W_CIRCLE, W_TOP, W_HALF, W_STROKES>>),
     Tok(<<W_CIRCLE, W_TOP, W_LEFT, W_QUARTER, W_FILLED>>),
     Tok(<<W_CIRCLE, W_TOP, W_RIGHT, W_QUARTER, W_FILLED>>),
     Tok(<<W_CIRCLE, W_VERTICAL, W_STROKES>>),
     Tok(<<W_SQUARE, W_BOTTOM, W_HALF, W_FILLED>>),
     Tok(<<W_SQUARE, W_CHECKERED>>),
     Tok(<<W_SQUARE, W_CROSS, W_FILLED>>),
     Tok(<<W_SQUARE, W_DIAGONAL, W_CHECKERED>>),
     Tok(<<W_SQUARE, W_DIAGONAL, W_STROKES>>),
     Tok(<<W_SQUARE, W_FILLED>>),
     Tok(<<W_SQUARE, W_HORIZONTAL, W_STROKES>>),
     Tok(<<W_SQUARE, W_LEFT, W_FILLED>>),
     Tok(<<W_SQUARE, W_RIGHT, W_FILLED>>),
     Tok(<<W_SQUARE, W_TOP, W_HALF, W_FILLED>>),
     Tok(<<W_SQUARE, W_TOP, W_HALF, W_STROKES>>),
     Tok(<<W_SQUARE, W_TOP, W_LEFT, W_QUARTER, W_FILLED>>),
     Tok(<<W_SQUARE, W_TOP, W_RIGHT, W_QUARTER, W_FILLED>>),
     Tok(<<W_SQUARE, W_VERTICAL, W_STROKES>>)}

----------------------------------------------------------------------------
(* Level keys: a Python int or None.                                       *)

IntLevel(l) == <<"int", l>>

NoneLevel == <<"none", 0>>

\* every integer level weighted, the negative ones as level 0
IsNumericLevel_Negative(lvl) == lvl[1] = "int"

\* isinstance(level, int) and level >= 0
IsNumericLevel(lvl) == lvl[1] = "int" /\ lvl[2] >= 0

----------------------------------------------------------------------------
(* calculate_generation_weight                                             *)

\* 1.0 / (1.2 ** l)
Decay(l) == Rat(Pow(5, l), Pow(6, l))

\* the normalising sum runs one level too far
calculate_generation_weight_ShortDenom(level, total_levels) ==
    LET raw   == Decay(Max2(level, 0))
        denom == SumOver([l \in 0..(Max2(total_levels, 1)) |-> Decay(l)],
                         0..(Max2(total_levels, 1)))
    IN  RDiv(raw, denom)

calculate_generation_weight(level, total_levels) ==
    LET raw   == Decay(Max2(level, 0))
        denom == SumOver([l \in 0..(Max2(total_levels, 1) - 1) |-> Decay(l)],
                         0..(Max2(total_levels, 1) - 1))
    IN  RDiv(raw, denom)

----------------------------------------------------------------------------
(* calculate_comprehensive_score: the parts shared by both modules.        *)

\* generation-count step: 0 if equal, 5 if off by one, 15 if off by two or more
GenerationStep_OffByOne(generations_diff) ==
    IF generations_diff <= 1 THEN 5 ELSE 15

GenerationStep(generations_diff) ==
    IF generations_diff = 1 THEN 5
    ELSE IF generations_diff >= 2 THEN 15
    ELSE 0

\* the number of level keys of either graph
TotalLevels_KeyCount(golden_levels, test_levels) ==
    Max2(Cardinality(DOMAIN golden_levels \cup DOMAIN test_levels), 1)

\* max_level + 1 over the numeric level keys of either graph
TotalLevels(golden_levels, test_levels) ==
    LET all_levels     == DOMAIN golden_levels \cup DOMAIN test_levels
        numeric_levels == {lvl \in all_levels : IsNumericLevel(lvl)}
        max_level      == IF numeric_levels = {} THEN 0
                          ELSE CHOOSE m \in {lvl[2] : lvl \in numeric_levels} :
                                   \A lvl \in numeric_levels : lvl[2] <= m
    IN  max_level + 1

\* sum over the numeric levels of |golden_count - test_count| * weight
WeightedLevelError(golden_levels, test_levels) ==
    LET all_levels   == DOMAIN golden_levels \cup DOMAIN test_levels
        scored       == {lvl \in all_levels : IsNumericLevel(lvl)}
        total_levels == TotalLevels(golden_levels, test_levels)
        term         == [lvl \in scored |->
                            RMul(RInt(Abs(Get(golden_levels, lvl, 0) - Get(test_levels, lvl, 0))),
                                 calculate_generation_weight(lvl[2], total_levels))]
    IN  SumOver(term, scored)

Tier1Deductions(golden_ext_, test_ext_) ==
    LET generations_diff == Abs(golden_ext_.structural.generations_count
                                - test_ext_.structural.generations_count)
        golden_gender == golden_ext_.gender_and_naming.gender_distribution
        test_gender   == test_ext_.gender_and_naming.gender_distribution
        mf_diff == Abs(Get(golden_gender, "MALE", 0) - Get(test_gender, "MALE", 0))
                   + Abs(Get(golden_gender, "FEMALE", 0) - Get(test_gender, "FEMALE", 0))
        miscarriage_diff == Abs(Get(golden_gender, "MISCARRIAGE", 0)
                                - Get(test_gender, "MISCARRIAGE", 0))
    IN  RAdd(RInt(GenerationStep(generations_diff) + mf_diff * 5 + miscarriage_diff * 1),
             RMul(WeightedLevelError(golden_ext_.structural.nodes_per_level,
                                     test_ext_.structural.nodes_per_level),
                  RInt(2)))

important_symbols == {"Deceased", "Adopted_in", "Adopted_out"}

\* every symbol of either graph charged, Divorce, Patient and Carrier included
Tier3Deductions_AllSymbols(golden_ext_, test_ext_) ==
    LET golden_diseases == golden_ext_.shading.disease_counts
        test_diseases   == test_ext_.shading.disease_counts
        all_diseases    == DOMAIN golden_diseases \cup DOMAIN test_diseases
        golden_symbols  == golden_ext_.symbols.symbol_counts
        test_symbols    == test_ext_.symbols.symbol_counts
        all_symbols     == DOMAIN golden_symbols \cup DOMAIN test_symbols
    IN  RInt(SumInt([d \in all_diseases |->
                        Abs(Get(golden_diseases, d, 0) - Get(test_diseases, d, 0))],
                    all_diseases)
             + SumInt([sy \in all_symbols |->
                          Abs(Get(golden_symbols, sy, 0) - Get(test_symbols, sy, 0)) * 2],
                      all_symbols)
             + Abs(golden_ext_.edges.dztwin_count - test_ext_.edges.dztwin_count)
             + Abs(golden_ext_.edges.mztwin_count - test_ext_.edges.mztwin_count))

Tier3Deductions(golden_ext_, test_ext_) ==
    LET golden_diseases == golden_ext_.shading.disease_counts
        test_diseases   == test_ext_.shading.disease_counts
        all_diseases    == DOMAIN golden_diseases \cup DOMAIN test_diseases
        disease_diff    == [d \in all_diseases |->
                               Abs(Get(golden_diseases, d, 0) - Get(test_diseases, d, 0)) * 1]
        golden_symbols  == golden_ext_.symbols.symbol_counts
        test_symbols    == test_ext_.symbols.symbol_counts
        symbol_diff     == [sy \in important_symbols |->
                               Abs(Get(golden_symbols, sy, 0) - Get(test_symbols, sy, 0)) * 2]
        dz_diff == Abs(golden_ext_.edges.dztwin_count - test_ext_.edges.dztwin_count)
        mz_diff == Abs(golden_ext_.edges.mztwin_count - test_ext_.edges.mztwin_count)
    IN  RInt(SumInt(disease_diff, all_diseases)
             + SumInt(symbol_diff, important_symbols)
             + (dz_diff + mz_diff) * 1)

FinalScore_NoClamp(total_deductions) == RSub(RInt(100), total_deductions)

\* final_score = max(0.0, base_score - total_deductions)
FinalScore(total_deductions) ==
    RMax(RInt(0), RSub(RInt(100), total_deductions))

\* tier1 * w1 + tier2 * w2 + tier3 * w3, the weights given in hundredths
Combine(tier1, tier2, tier3, w1, w2, w3) ==
    RAdd(RAdd(RMul(tier1, Rat(w1, 100)), RMul(tier2, Rat(w2, 100))),
         RMul(tier3, Rat(w3, 100)))

----------------------------------------------------------------------------
(* pedigree_scoring.calculate_comprehensive_score                          *)

\* the parent and partner counts only, the sibling part of the scheme left out
Tier2Deductions_NoSiblings(golden_metrics_, test_metrics_) ==
    RInt(4 * (Abs(golden_metrics_["nodes_with_no_parents_true"]
                  - test_metrics_["nodes_with_no_parents_true"])
              + Abs(golden_metrics_["nodes_with_one_partner"]
                    - test_metrics_["nodes_with_one_partner"])
              + Abs(golden_metrics_["nodes_with_multiple_partners"]
                    - test_metrics_["nodes_with_multiple_partners"])))

Tier2Deductions(golden_metrics_, test_metrics_) ==
    LET D(key) == Abs(golden_metrics_[key] - test_metrics_[key])
        noparents_diff      == D("nodes_with_no_parents_true")
        partner_diff        == D("nodes_with_one_partner") + D("nodes_with_multiple_partners")
        siblings_total_diff == D("nodes_with_siblings")
        sibling_dist_diff   == D("nodes_with_1_sibling") + D("nodes_with_2_siblings")
                               + D("nodes_with_3_siblings") + D("nodes_with_4_siblings")
                               + D("nodes_with_5_or_more_siblings")
    IN  RInt(noparents_diff * 4 + partner_diff * 4 + siblings_total_diff * 4
             + sibling_dist_diff * 4)

calculate_comprehensive_score(golden_metrics_, test_metrics_, golden_ext_, test_ext_) ==
    LET tier1_deductions == Tier1Deductions(golden_ext_, test_ext_)
        tier2_deductions == Tier2Deductions(golden_metrics_, test_metrics_)
        tier3_deductions == Tier3Deductions(golden_ext_, test_ext_)
        total_deductions == Combine(tier1_deductions, tier2_deductions, tier3_deductions,
                                    50, 40, 10)
    IN  [final_score      |-> FinalScore(total_deductions),
         tier1_deductions |-> tier1_deductions,
         tier2_deductions |-> tier2_deductions,
         tier3_deductions |-> tier3_deductions,
         total_deductions |-> total_deductions,
         tier1_weighted   |-> RMul(tier1_deductions, Rat(63, 100)),
         tier2_weighted   |-> RMul(tier2_deductions, Rat(26, 100)),
         tier3_weighted   |-> RMul(tier3_deductions, Rat(11, 100))]

\* a scorer whose second tier also charges the overlapping boxes
comparator_Tier2Deductions_Overlaps(golden_metrics_, test_metrics_, golden_ext_, test_ext_) ==
    RInt(3 * (Abs(golden_metrics_["nodes_with_mother"] - test_metrics_["nodes_with_mother"])
              + Abs(golden_metrics_["nodes_with_father"] - test_metrics_["nodes_with_father"]))
         + 2 * Abs(golden_ext_.partnerships.partnerships_count
                   - test_ext_.partnerships.partnerships_count)
         + Abs(golden_ext_.partnerships.divorces_count - test_ext_.partnerships.divorces_count)
         + Abs(golden_ext_.spatial.overlapping_boxes_count
               - test_ext_.spatial.overlapping_boxes_count))

----------------------------------------------------------------------------
(* pedigree_json_comparator.calculate_comprehensive_score                  *)

comparator_Tier2Deductions(golden_metrics_, test_metrics_, golden_ext_, test_ext_) ==
    LET parent_diff == Abs(golden_metrics_["nodes_with_mother"] - test_metrics_["nodes_with_mother"])
                       + Abs(golden_metrics_["nodes_with_father"] - test_metrics_["nodes_with_father"])
        partnership_diff == Abs(golden_ext_.partnerships.partnerships_count
                                - test_ext_.partnerships.partnerships_count)
        divorce_diff == Abs(golden_ext_.partnerships.divorces_count
                            - test_ext_.partnerships.divorces_count)
    IN  RInt(parent_diff * 3 + partnership_diff * 2 + divorce_diff * 1)

comparator_calculate_comprehensive_score(golden_metrics_, test_metrics_, golden_ext_, test_ext_) ==
    LET tier1_deductions == Tier1Deductions(golden_ext_, test_ext_)
        tier2_deductions == comparator_Tier2Deductions(golden_metrics_, test_metrics_,
                                                       golden_ext_, test_ext_)
        tier3_deductions == Tier3Deductions(golden_ext_, test_ext_)
        total_deductions == Combine(tier1_deductions, tier2_deductions, tier3_deductions,
                                    63, 26, 11)
    IN  [final_score      |-> FinalScore(total_deductions),
         tier1_deductions |-> tier1_deductions,
         tier2_deductions |-> tier2_deductions,
         tier3_deductions |-> tier3_deductions,
         total_deductions |-> total_deductions,
         tier1_weighted   |-> RMul(tier1_deductions, Rat(63, 100)),
         tier2_weighted   |-> RMul(tier2_deductions, Rat(26, 100)),
         tier3_weighted   |-> RMul(tier3_deductions, Rat(11, 100))]

\* the scorer of the module in use
Score(v, gm, tm, ge, te) ==
    IF v = "pedigree_scoring"
    THEN calculate_comprehensive_score(gm, tm, ge, te)
    ELSE comparator_calculate_comprehensive_score(gm, tm, ge, te)

----------------------------------------------------------------------------
(* Pedigree nodes.  A node is a record holding every field; an absent      *)
(* field holds what n.get(field) returns for it (None), encoded per type.  *)

\* None where a name is expected (name, father, mother, sex)
NoneName == "<None>"

\* what compare_pair returns when its try block raised
PyNone == [none |-> TRUE]

\* bool(x) for a name-typed value: None and "" are falsy
Truthy(x) == x # NoneName /\ x # ""

\* flag values of dztwin / mztwin: <<"none", 0>>, <<"int", k>>, <<"bool", b>>, <<"str", s>>
NoFlag == <<"none", 0>>

\* Python's flag == 1: the int 1, and True, which equals 1
EqualsOne(flag) ==
    \/ flag[1] = "int" /\ flag[2] = 1
    \/ flag[1] = "bool" /\ flag[2] = TRUE

\* shading values: absent, one string, or a list of strings
NoShading == <<"none">>

ShadingStr(str) == <<"str", str>>

ShadingList(strs) == <<"list", strs>>

\* a shading that is neither a string nor a list: a number other than 0
ShadingOther == <<"int", <<"5">>>>

\* bool(shading_list): None, "" and [] are falsy
ShadingTruthy(sh) == sh[1] # "none" /\ sh[2] # <<>>

\* the node all of whose fields are absent
BlankNode ==
    [name |-> NoneName, level |-> NoneLevel, top_level |-> FALSE, sex |-> NoneName,
     miscarriage |-> FALSE, proband |-> FALSE, noparents |-> FALSE,
     adopted_in |-> FALSE, adopted_out |-> FALSE, status |-> 0,
     father |-> NoneName, mother |-> NoneName, has_father |-> FALSE, has_mother |-> FALSE,
     partners |-> <<>>, divorced |-> <<>>, siblings |-> <<>>,
     partners_type |-> "list", divorced_type |-> "list", siblings_type |-> "list",
     shading |-> NoShading, dztwin |-> NoFlag, mztwin |-> NoFlag,
     coordinates |-> <<>>, center |-> <<>>, carrier |-> FALSE]

\* The value of partners / divorced / siblings comes with its Python type:
\* "list" (an absent or null field reads as the empty list), "str" (the field
\* then holds the characters of the string) or "int" (a number other than 0).
\* isinstance(x, list)
IsList(type) == type = "list"

\* bool(x)
FieldTruthy(value, type) == IF type = "int" THEN TRUE ELSE value # <<>>

Range(seq) == {seq[i] : i \in 1..Len(seq)}

\* sum(1 for n in nodes if P(n))
CountNodes(flags) == Cardinality({i \in DOMAIN flags : flags[i]})

\* dict(Counter): the keys that occur, each with the number of nodes holding it
CounterOf(kept, keys) ==
    [k \in {keys[i] : i \in kept} |-> Cardinality({i \in kept : keys[i] = k})]

----------------------------------------------------------------------------
(* pedigree_core.compute_metrics                                           *)

\* a bucket boundary one too low: four siblings already fall under "5+"
SiblingBucket_FourUp(sibling_count) == IF sibling_count >= 4 THEN 5 ELSE sibling_count

\* the key of sibling_counts a list of sibling_count names falls under; the
\* key "5+" is written 5
SiblingBucket(sibling_count) == IF sibling_count >= 5 THEN 5 ELSE sibling_count

compute_metrics(nodes) ==
    LET counted == {i \in DOMAIN nodes :
                       IsList(nodes[i].siblings_type) /\ nodes[i].siblings # <<>>}
        sibling_counts == [k \in 1..5 |->
                              Cardinality({i \in counted :
                                              SiblingBucket(Len(nodes[i].siblings)) = k})]
    IN  [total_nodes                   |-> Len(nodes),
         nodes_with_no_parents_true    |-> CountNodes([i \in DOMAIN nodes |-> nodes[i].noparents]),
         nodes_with_one_partner        |-> CountNodes([i \in DOMAIN nodes |->
                                              IsList(nodes[i].partners_type) /\ Len(nodes[i].partners) = 1]),
         nodes_with_multiple_partners  |-> CountNodes([i \in DOMAIN nodes |->
                                              IsList(nodes[i].partners_type) /\ Len(nodes[i].partners) > 1]),
         nodes_with_siblings           |-> Cardinality(counted),
         nodes_with_1_sibling          |-> sibling_counts[1],
         nodes_with_2_siblings         |-> sibling_counts[2],
         nodes_with_3_siblings         |-> sibling_counts[3],
         nodes_with_4_siblings         |-> sibling_counts[4],
         nodes_with_5_or_more_siblings |-> sibling_counts[5]]

----------------------------------------------------------------------------
(* pedigree_core.compute_extended_metrics                                  *)

\* every node counted in the level distribution, as the comparator does
LevelIncluded_All(n) == TRUE

\* the nodes counted in the level distribution
LevelIncluded(n) ==
    n.level # IntLevel(0) \/ (n.level = IntLevel(0) /\ n.top_level)

\* as GenderOf, with sex "F" not recognised
GenderOf_NoFemale(n) ==
    IF n.miscarriage THEN "MISCARRIAGE"
    ELSE IF n.sex = "M" THEN "MALE"
    ELSE "UNKNOWN"

\* the sex tested before the miscarriage flag
GenderOf_SexFirst(n) ==
    IF n.sex = "M" THEN "MALE"
    ELSE IF n.sex = "F" THEN "FEMALE"
    ELSE IF n.miscarriage THEN "MISCARRIAGE"
    ELSE "UNKNOWN"

GenderOf(n) ==
    IF n.miscarriage THEN "MISCARRIAGE"
    ELSE IF n.sex = "M" THEN "MALE"
    ELSE IF n.sex = "F" THEN "FEMALE"
    ELSE "UNKNOWN"

\* partners_map[name] = set(partners): of the nodes of one name the last
\* one alone is kept
PartnersMap_LastWins(nodes) ==
    [a \in {nodes[i].name : i \in {j \in 1..Len(nodes) : IsList(nodes[j].partners_type)}} |->
        LET named == {j \in 1..Len(nodes) : nodes[j].name = a /\ IsList(nodes[j].partners_type)}
            last  == CHOOSE i \in named : \A j \in named : j <= i
        IN  {p \in Range(nodes[last].partners) : Truthy(p) /\ p # a}]

\* name -> set of partner names, self-references and falsy entries filtered
PartnersMap(nodes) ==
    [a \in {nodes[i].name : i \in {j \in 1..Len(nodes) : IsList(nodes[j].partners_type)}} |->
        UNION {{p \in Range(nodes[i].partners) : Truthy(p) /\ p # a} :
               i \in {j \in 1..Len(nodes) : nodes[j].name = a /\ IsList(nodes[j].partners_type)}}]

\* the pairs kept as (a, b), in the order they are listed
PartnershipPairs_Ordered(nodes) ==
    LET partners_map == PartnersMap(nodes)
    IN  UNION {{<<a, b>> : b \in {x \in partners_map[a] : Truthy(a) /\ Truthy(x) /\ a # x}} :
               a \in DOMAIN partners_map}

\* tuple(sorted((a, b))) kept in a set: the unordered pair {a, b}
PartnershipPairs(nodes) ==
    LET partners_map == PartnersMap(nodes)
    IN  UNION {{{a, b} : b \in {x \in partners_map[a] : Truthy(a) /\ Truthy(x) /\ a # x}} :
               a \in DOMAIN partners_map}

DivorcesPairs(nodes) ==
    UNION {{{nodes[i].name, d} :
            d \in {x \in Range(nodes[i].divorced) : Truthy(x) /\ x # nodes[i].name}} :
           i \in {j \in 1..Len(nodes) : IsList(nodes[j].divorced_type)}}

\* int(bool(father)) + int(bool(mother))
ParentCount(n) ==
    (IF Truthy(n.father) THEN 1 ELSE 0) + (IF Truthy(n.mother) THEN 1 ELSE 0)

ParentsCompleteness(nodes) ==
    [zero_parents |-> CountNodes([i \in DOMAIN nodes |-> ParentCount(nodes[i]) = 0]),
     one_parent   |-> CountNodes([i \in DOMAIN nodes |-> ParentCount(nodes[i]) = 1]),
     two_parents  |-> CountNodes([i \in DOMAIN nodes |-> ParentCount(nodes[i]) = 2])]

\* shape = "SQUARE" if sex == "M" else "CIRCLE"
ShapeOf(sex) == IF sex = "M" THEN W_SQUARE ELSE W_CIRCLE

\* pattern.replace(" female", ""), .upper().replace("-", "_"), prefixed by the shape
process_shading_pattern(shape, pattern) ==
    LET stripped      == Replace(pattern, <<" ">> \o W_female, <<>>)
        pattern_upper == Replace(Upper(stripped), <<"-">>, <<"_">>)
    IN  shape \o <<"_">> \o pattern_upper

\* the shading strings a node is counted for: none unless the node has a truthy
\* shading, sex M or F and no miscarriage flag
ShadingPatterns(n) ==
    IF ShadingTruthy(n.shading) /\ n.sex \in {"M", "F"} /\ ~n.miscarriage
    THEN IF n.shading[1] = "list" THEN n.shading[2]
         ELSE IF n.shading[1] = "str" THEN <<n.shading[2]>>
         ELSE <<>>
    ELSE <<>>

\* full_disease of each shading string of a counted node
NodeTokens(n) ==
    [j \in DOMAIN ShadingPatterns(n) |->
        process_shading_pattern(ShapeOf(n.sex), ShadingPatterns(n)[j])]

\* dict(disease_counts): the recognised tokens that occur, with their counts;
\* tokens[i] are the tokens of node i
DiseaseCounts(tokens, patterns) ==
    LET hits == UNION {{<<i, j>> : j \in {x \in DOMAIN tokens[i] : tokens[i][x] \in patterns}} :
                       i \in DOMAIN tokens}
    IN  [k \in {tokens[h[1]][h[2]] : h \in hits} |->
            Cardinality({h \in hits : tokens[h[1]][h[2]] = k})]

symbol_types == {"Adopted_in", "Adopted_out", "Carrier", "Deceased", "Divorce", "Patient"}

\* a counter that reads a carrier field of the node
HasSymbol_Carrier(n, sy) ==
    CASE sy = "Deceased"    -> n.status = 1
      [] sy = "Adopted_in"  -> n.adopted_in
      [] sy = "Adopted_out" -> n.adopted_out
      [] sy = "Divorce"     -> FieldTruthy(n.divorced, n.divorced_type)
      [] sy = "Patient"     -> n.proband
      [] sy = "Carrier"     -> n.carrier
      [] OTHER              -> FALSE

HasSymbol(n, sy) ==
    CASE sy = "Deceased"    -> n.status = 1
      [] sy = "Adopted_in"  -> n.adopted_in
      [] sy = "Adopted_out" -> n.adopted_out
      [] sy = "Divorce"     -> FieldTruthy(n.divorced, n.divorced_type)
      [] sy = "Patient"     -> n.proband
      [] OTHER              -> FALSE

\* dict(symbol_counts): the symbols that occur, with their counts
SymbolCounts(nodes) ==
    [sy \in {t \in symbol_types : \E i \in 1..Len(nodes) : HasSymbol(nodes[i], t)} |->
        CountNodes([i \in DOMAIN nodes |-> HasSymbol(nodes[i], sy)])]

Edges(nodes) ==
    [dztwin_count |-> CountNodes([i \in DOMAIN nodes |-> EqualsOne(nodes[i].dztwin)]),
     mztwin_count |-> CountNodes([i \in DOMAIN nodes |-> EqualsOne(nodes[i].mztwin)])]

compute_extended_metrics(nodes) ==
    LET level_dist == CounterOf({i \in DOMAIN nodes : LevelIncluded(nodes[i])},
                                [i \in DOMAIN nodes |-> nodes[i].level])
    IN  [structural |->
            [generations_count |-> Cardinality(DOMAIN level_dist),
             nodes_per_level   |-> level_dist],
         gender_and_naming |->
            [gender_distribution |-> CounterOf(DOMAIN nodes,
                                             [i \in DOMAIN nodes |-> GenderOf(nodes[i])])],
         partnerships |->
            [partnerships_count |-> Cardinality(PartnershipPairs(nodes)),
             divorces_count     |-> Cardinality(DivorcesPairs(nodes))],
         parent_child_and_siblings |->
            [parents_completeness |-> ParentsCompleteness(nodes)],
         shading |->
            [disease_counts |-> DiseaseCounts([i \in DOMAIN nodes |-> NodeTokens(nodes[i])],
                                              model_disease_patterns)],
         symbols |-> [symbol_counts |-> SymbolCounts(nodes)],
         edges   |-> Edges(nodes)]

----------------------------------------------------------------------------
(* pedigree_json_comparator: compute_metrics and compute_extended_metrics  *)

comparator_compute_metrics(nodes) ==
    LET name_set     == {nodes[i].name : i \in 1..Len(nodes)}
        parent_names == {nodes[i].father : i \in {j \in 1..Len(nodes) : Truthy(nodes[j].father)}}
                        \cup {nodes[i].mother : i \in {j \in 1..Len(nodes) : Truthy(nodes[j].mother)}}
    IN  [total_nodes                |-> Len(nodes),
         nodes_with_no_parents_true |-> CountNodes([i \in DOMAIN nodes |-> nodes[i].noparents]),
         nodes_with_top_level_true  |-> CountNodes([i \in DOMAIN nodes |-> nodes[i].top_level]),
         nodes_with_partner         |-> CountNodes([i \in DOMAIN nodes |->
                                           IsList(nodes[i].partners_type) /\ Len(nodes[i].partners) > 0]),
         nodes_with_child           |-> Cardinality(parent_names \cap name_set),
         nodes_with_mother          |-> CountNodes([i \in DOMAIN nodes |-> nodes[i].has_mother]),
         nodes_with_father          |-> CountNodes([i \in DOMAIN nodes |-> nodes[i].has_father])]

\* pattern.upper().replace("-", "_"), prefixed by the shape
comparator_process_shading_pattern(shape, pattern) ==
    shape \o <<"_">> \o Replace(Upper(pattern), <<"-">>, <<"_">>)

comparator_NodeTokens(n) ==
    [j \in DOMAIN ShadingPatterns(n) |->
        comparator_process_shading_pattern(ShapeOf(n.sex), ShadingPatterns(n)[j])]

\* set([name] + [s for s in sibs if s])
SiblingGroup(n) == {n.name} \cup {sb \in Range(n.siblings) : Truthy(sb)}

\* the node's group joins the list when it has more than one member
SiblingGroups_NoDedup(nodes) ==
    LET F[k \in 0..Len(nodes)] ==
            IF k = 0 THEN <<>>
            ELSE LET n     == nodes[k]
                     group == SiblingGroup(n)
                 IN  IF FieldTruthy(n.siblings, n.siblings_type) /\ Cardinality(group) > 1
                     THEN Append(F[k - 1], group)
                     ELSE F[k - 1]
    IN  F[Len(nodes)]

\* sibling_groups after the loop over the nodes: the node's group joins the
\* list when it has more than one member and no equal set is in the list yet
SiblingGroups(nodes) ==
    LET F[k \in 0..Len(nodes)] ==
            IF k = 0 THEN <<>>
            ELSE LET n     == nodes[k]
                     group == SiblingGroup(n)
                 IN  IF FieldTruthy(n.siblings, n.siblings_type) /\ Cardinality(group) > 1
                        /\ group \notin Range(F[k - 1])
                     THEN Append(F[k - 1], group)
                     ELSE F[k - 1]
    IN  F[Len(nodes)]

\* the lists of a list of lists, joined in order
RECURSIVE Concat(_)
Concat(seqs) == IF seqs = <<>> THEN <<>> ELSE Head(seqs) \o Concat(Tail(seqs))

MinOf(S) == CHOOSE m \in S : \A x \in S : m <= x

MaxOf(S) == CHOOSE m \in S : \A x \in S : x <= m

\* sum(1 for n in nodes if not n.get("father") and not n.get("mother"))
comparator_root_nodes_count(nodes) ==
    CountNodes([i \in DOMAIN nodes |-> ~Truthy(nodes[i].father) /\ ~Truthy(nodes[i].mother)])

\* nodes whose name no node gives as father or mother
comparator_leaf_nodes_count(nodes) ==
    LET parent_names == {p \in {nodes[i].father : i \in DOMAIN nodes}
                                 \cup {nodes[i].mother : i \in DOMAIN nodes} : Truthy(p)}
    IN  CountNodes([i \in DOMAIN nodes |-> nodes[i].name \notin parent_names])

\* max((len(s) for s in partners_map.values()), default=0)
comparator_max_partners(nodes) ==
    LET partners_map == PartnersMap(nodes)
    IN  IF DOMAIN partners_map = {} THEN 0
        ELSE MaxOf({Cardinality(partners_map[a]) : a \in DOMAIN partners_map})

\* issues_duplicates: one message, with the name and its count, per name that
\* more than one node has, in the order the names come first
comparator_duplicate_names(nodes) ==
    Concat([i \in DOMAIN nodes |->
        LET nm == nodes[i].name
            c  == Cardinality({j \in DOMAIN nodes : nodes[j].name = nm})
        IN  IF c > 1 /\ \A j \in 1..(i - 1) : nodes[j].name # nm
            THEN <<[name |-> nm, count |-> c]>> ELSE <<>>])

\* issues_self_ref: per node, the roles in which it names itself
comparator_self_references(nodes) ==
    Concat([i \in DOMAIN nodes |->
        LET n == nodes[i]
        IN  (IF Truthy(n.father) /\ n.father = n.name
             THEN <<[name |-> n.name, role |-> "father"]>> ELSE <<>>)
            \o (IF Truthy(n.mother) /\ n.mother = n.name
                THEN <<[name |-> n.name, role |-> "mother"]>> ELSE <<>>)
            \o (IF IsList(n.partners_type) /\ n.name \in Range(n.partners)
                THEN <<[name |-> n.name, role |-> "partner"]>> ELSE <<>>)
            \o (IF IsList(n.siblings_type) /\ n.name \in Range(n.siblings)
                THEN <<[name |-> n.name, role |-> "sibling"]>> ELSE <<>>)])

\* issues_contradictions: noparents or top_level set on a node with a parent
comparator_contradictions(nodes) ==
    Concat([i \in DOMAIN nodes |->
        LET n == nodes[i]
            parent == Truthy(n.father) \/ Truthy(n.mother)
        IN  (IF n.noparents /\ parent
             THEN <<[name |-> n.name, flag |-> "noparents"]>> ELSE <<>>)
            \o (IF n.top_level /\ parent
                THEN <<[name |-> n.name, flag |-> "top_level"]>> ELSE <<>>)])

\* issues_partner_asym: a lists b and b does not list a; the list follows the
\* iteration order of a set, so it is kept as the set of its messages
comparator_partner_asymmetry(nodes) ==
    LET partners_map == PartnersMap(nodes)
    IN  {<<a, b>> \in UNION {{<<x, y>> : y \in partners_map[x]} : x \in DOMAIN partners_map} :
            b \notin DOMAIN partners_map \/ a \notin partners_map[b]}

\* siblings_map: the siblings of the last node of each name
comparator_siblings_map(nodes) ==
    [a \in {nodes[i].name : i \in DOMAIN nodes} |->
        LET last == MaxOf({i \in DOMAIN nodes : nodes[i].name = a})
        IN  Range(nodes[last].siblings)]

\* issues_sibling_asym, kept as the set of its messages
comparator_sibling_asymmetry(nodes) ==
    LET siblings_map == comparator_siblings_map(nodes)
    IN  {<<a, b>> \in UNION {{<<x, y>> : y \in siblings_map[x]} : x \in DOMAIN siblings_map} :
            a \notin Get(siblings_map, b, {})}

comparator_consistency_checks(nodes) ==
    [self_references    |-> comparator_self_references(nodes),
     duplicate_names    |-> comparator_duplicate_names(nodes),
     contradictions     |-> comparator_contradictions(nodes),
     partner_asymmetry  |-> comparator_partner_asymmetry(nodes),
     sibling_asymmetry  |-> comparator_sibling_asymmetry(nodes)]

\* overlap(a, b) of two boxes [x1, y1, x2, y2]
comparator_overlap(a, b) ==
    LET al == MinOf({a[1], a[3]})
        ar == MaxOf({a[1], a[3]})
        at == MinOf({a[2], a[4]})
        ab == MaxOf({a[2], a[4]})
        bl == MinOf({b[1], b[3]})
        br == MaxOf({b[1], b[3]})
        bt == MinOf({b[2], b[4]})
        bb == MaxOf({b[2], b[4]})
    IN  ~(ar < bl \/ br < al \/ ab < bt \/ bb < at)

\* the spatial section: a node's coordinates count when they are a list of
\* four numbers, its center when it is a list of two; a bound of the canvas
\* is None or a number, written as a level is
comparator_spatial(nodes) ==
    LET boxed  == {i \in DOMAIN nodes : Len(nodes[i].coordinates) = 4}
        placed == {i \in DOMAIN nodes : Len(nodes[i].center) = 2}
        xs     == UNION {{nodes[i].coordinates[1], nodes[i].coordinates[3]} : i \in boxed}
        ys     == UNION {{nodes[i].coordinates[2], nodes[i].coordinates[4]} : i \in boxed}
        overlapping_pairs ==
            Concat([i \in DOMAIN nodes |->
                Concat([j \in DOMAIN nodes |->
                    IF i \in boxed /\ j \in boxed /\ i < j
                       /\ comparator_overlap(nodes[i].coordinates, nodes[j].coordinates)
                    THEN << <<nodes[i].name, nodes[j].name>> >> ELSE <<>>])])
    IN  [canvas_bounds |->
            [min_x |-> IF boxed = {} THEN NoneLevel ELSE IntLevel(MinOf(xs)),
             max_x |-> IF boxed = {} THEN NoneLevel ELSE IntLevel(MaxOf(xs)),
             min_y |-> IF boxed = {} THEN NoneLevel ELSE IntLevel(MinOf(ys)),
             max_y |-> IF boxed = {} THEN NoneLevel ELSE IntLevel(MaxOf(ys))],
         avg_center_y_per_level |->
            [lvl \in {nodes[i].level : i \in placed} |->
                LET at == {i \in placed : nodes[i].level = lvl}
                IN  Rat(SumInt([i \in at |-> nodes[i].center[2]], at), Cardinality(at))],
         overlapping_boxes_count |-> Len(overlapping_pairs),
         overlapping_pairs       |-> overlapping_pairs]

comparator_compute_extended_metrics(nodes) ==
    LET level_dist == CounterOf(DOMAIN nodes, [i \in DOMAIN nodes |-> nodes[i].level])
    IN  [structural |->
            [generations_count |-> Cardinality(DOMAIN level_dist),
             nodes_per_level   |-> level_dist,
             root_nodes_count  |-> comparator_root_nodes_count(nodes),
             leaf_nodes_count  |-> comparator_leaf_nodes_count(nodes)],
         gender_and_naming |->
            [gender_distribution |-> CounterOf(DOMAIN nodes,
                                             [i \in DOMAIN nodes |-> GenderOf(nodes[i])])],
         partnerships |->
            [partnerships_count |-> Cardinality(PartnershipPairs(nodes)),
             max_partners_for_single_node |-> comparator_max_partners(nodes),
             divorces_count     |-> Cardinality(DivorcesPairs(nodes))],
         parent_child_and_siblings |->
            [parents_completeness |-> ParentsCompleteness(nodes),
             sibling_groups_count |-> Len(SiblingGroups(nodes))],
         shading |->
            [disease_counts |-> DiseaseCounts([i \in DOMAIN nodes |-> comparator_NodeTokens(nodes[i])],
                                              model_disease_patterns)],
         symbols |-> [symbol_counts |-> SymbolCounts(nodes)],
         edges   |-> Edges(nodes),
         consistency_checks |-> comparator_consistency_checks(nodes),
         spatial |-> comparator_spatial(nodes)]

----------------------------------------------------------------------------
(* The scorer on snapshots handed to it directly.                          *)

Variants == {"pedigree_scoring", "pedigree_json_comparator"}

\* bounds of the snapshots explored
MaxEdits == 2

LargeCount == 1000

\* the values a count is given: the generation count and the per-level counts
\* move in small steps as well, every count can be far off
CountValues(f) ==
    IF f[1] \in {"generations", "level"} THEN {0, 1, 2, LargeCount}
    ELSE {0, 1, LargeCount}

\* the snapshots of the graph without nodes
EmptyMetrics(v) ==
    IF v = "pedigree_scoring" THEN compute_metrics(<<>>)
    ELSE comparator_compute_metrics(<<>>)

EmptyExt(v) ==
    IF v = "pedigree_scoring" THEN compute_extended_metrics(<<>>)
    ELSE comparator_compute_extended_metrics(<<>>)

\* counts of a snapshot pair (metrics, ext), each named by <<section, key>>:
\* the ones the explored inputs vary, some from every tier of each scorer
ScoringFields ==
    {<<"generations", "generations_count">>,
     <<"level", IntLevel(0)>>, <<"level", IntLevel(1)>>,
     <<"gender", "MALE">>, <<"gender", "MISCARRIAGE">>,
     <<"metrics", "nodes_with_no_parents_true">>, <<"metrics", "nodes_with_siblings">>,
     <<"disease", Tok(<<W_SQUARE, W_FILLED>>)>>,
     <<"symbol", "Deceased">>,
     <<"edges", "dztwin_count">>}

ComparatorFields ==
    {<<"generations", "generations_count">>,
     <<"level", IntLevel(0)>>, <<"level", IntLevel(1)>>,
     <<"gender", "MALE">>, <<"gender", "MISCARRIAGE">>,
     <<"metrics", "nodes_with_mother">>,
     <<"partnerships", "partnerships_count">>, <<"partnerships", "divorces_count">>,
     <<"disease", Tok(<<W_SQUARE, W_FILLED>>)>>,
     <<"symbol", "Deceased">>}

Fields(v) == IF v = "pedigree_scoring" THEN ScoringFields ELSE ComparatorFields

\* the value of count f in the snapshot pair (m, e); a key missing from a dict counts 0
FieldValue(m, e, f) ==
    CASE f[1] = "metrics"      -> m[f[2]]
      [] f[1] = "generations"  -> e.structural.generations_count
      [] f[1] = "level"        -> Get(e.structural.nodes_per_level, f[2], 0)
      [] f[1] = "gender"       -> Get(e.gender_and_naming.gender_distribution, f[2], 0)
      [] f[1] = "partnerships" -> e.partnerships[f[2]]
      [] f[1] = "disease"      -> Get(e.shading.disease_counts, f[2], 0)
      [] f[1] = "symbol"       -> Get(e.symbols.symbol_counts, f[2], 0)
      [] f[1] = "edges"        -> e.edges[f[2]]

\* the dict d with d[k] = val; a count of 0 removes the key, as in dict(Counter)
DictSet(d, k, val) ==
    [x \in (IF val = 0 THEN DOMAIN d \ {k} ELSE DOMAIN d \cup {k}) |->
        IF x = k THEN val ELSE d[x]]

SetMetrics(m, f, val) ==
    IF f[1] = "metrics" THEN [m EXCEPT ![f[2]] = val] ELSE m

SetExt(e, f, val) ==
    CASE f[1] = "metrics"      -> e
      [] f[1] = "generations"  -> [e EXCEPT !.structural.generations_count = val]
      [] f[1] = "level"        ->
            [e EXCEPT !.structural.nodes_per_level = DictSet(@, f[2], val)]
      [] f[1] = "gender"       ->
            [e EXCEPT !.gender_and_naming.gender_distribution = DictSet(@, f[2], val)]
      [] f[1] = "partnerships" -> [e EXCEPT !.partnerships[f[2]] = val]
      [] f[1] = "disease"      ->
            [e EXCEPT !.shading.disease_counts = DictSet(@, f[2], val)]
      [] f[1] = "symbol"       ->
            [e EXCEPT !.symbols.symbol_counts = DictSet(@, f[2], val)]
      [] f[1] = "edges"        -> [e EXCEPT !.edges[f[2]] = val]

\* the number of counts of F that are not 0 in the snapshot pair (m, e)
NonZero(F, m, e) == Cardinality({f \in F : FieldValue(m, e, f) # 0})

ScoreInit ==
    /\ variant \in Variants
    /\ golden_nodes = <<>>
    /\ test_nodes = <<>>
    /\ golden_metrics = EmptyMetrics(variant)
    /\ test_metrics = EmptyMetrics(variant)
    /\ golden_ext = EmptyExt(variant)
    /\ test_ext = EmptyExt(variant)
    /\ score_data = Score(variant, golden_metrics, test_metrics, golden_ext, test_ext)
    /\ n_levels = 0
    /\ weights = <<>>
    /\ DriverIdle

\* the scorer is called with one count of the golden snapshot changed
ScoreGoldenChanged(F) ==
    LET used == NonZero(F, golden_metrics, golden_ext) + NonZero(F, test_metrics, test_ext)
    IN  \E f \in F : \E val \in CountValues(f) :
            LET old == FieldValue(golden_metrics, golden_ext, f)
            IN  /\ val # old
                /\ used + (IF old = 0 THEN 1 ELSE 0) - (IF val = 0 THEN 1 ELSE 0) <= MaxEdits
                /\ golden_metrics' = SetMetrics(golden_metrics, f, val)
                /\ golden_ext' = SetExt(golden_ext, f, val)
                /\ score_data' = Score(variant, golden_metrics', test_metrics,
                                       golden_ext', test_ext)
                /\ UNCHANGED <<variant, golden_nodes, test_nodes, test_metrics, test_ext, weightVars, driverVars>>

\* the scorer is called with one count of the candidate snapshot changed
ScoreTestChanged(F) ==
    LET used == NonZero(F, golden_metrics, golden_ext) + NonZero(F, test_metrics, test_ext)
    IN  \E f \in F : \E val \in CountValues(f) :
            LET old == FieldValue(test_metrics, test_ext, f)
            IN  /\ val # old
                /\ used + (IF old = 0 THEN 1 ELSE 0) - (IF val = 0 THEN 1 ELSE 0) <= MaxEdits
                /\ test_metrics' = SetMetrics(test_metrics, f, val)
                /\ test_ext' = SetExt(test_ext, f, val)
                /\ score_data' = Score(variant, golden_metrics, test_metrics',
                                       golden_ext, test_ext')
                /\ UNCHANGED <<variant, golden_nodes, test_nodes, golden_metrics, golden_ext, weightVars, driverVars>>

\* the scorer is called with the golden snapshots on both sides
ScoreSelf ==
    /\ <<test_metrics, test_ext>> # <<golden_metrics, golden_ext>>
    /\ test_metrics' = golden_metrics
    /\ test_ext' = golden_ext
    /\ score_data' = Score(variant, golden_metrics, golden_metrics, golden_ext, golden_ext)
    /\ UNCHANGED <<variant, golden_nodes, test_nodes, golden_metrics, golden_ext, weightVars, driverVars>>

ScoreNext ==
    \/ ScoreGoldenChanged(Fields(variant))
    \/ ScoreTestChanged(Fields(variant))
    \/ ScoreSelf

SpecScore == ScoreInit /\ [][ScoreNext]_vars

----------------------------------------------------------------------------
(* The weights of the levels 0 .. total_levels - 1, computed one level at  *)
(* a time in any order, as the scorer's loop over the level keys does.     *)

MaxTotalLevels == 6

WeightInit ==
    /\ n_levels \in 0..MaxTotalLevels
    /\ weights = <<>>
    /\ DriverIdle
    /\ variant = "pedigree_scoring"
    /\ golden_nodes = <<>>
    /\ test_nodes = <<>>
    /\ golden_metrics = EmptyMetrics(variant)
    /\ test_metrics = EmptyMetrics(variant)
    /\ golden_ext = EmptyExt(variant)
    /\ test_ext = EmptyExt(variant)
    /\ score_data = Score(variant, golden_metrics, test_metrics, golden_ext, test_ext)

ComputeWeight ==
    \E level \in (0..(Max2(n_levels, 1) - 1)) \ DOMAIN weights :
        /\ weights' = (level :> calculate_generation_weight(level, n_levels)) @@ weights
        /\ UNCHANGED <<variant, golden_nodes, test_nodes, golden_metrics, test_metrics,
                       golden_ext, test_ext, score_data, n_levels, driverVars>>

WeightNext == ComputeWeight

SpecWeight == WeightInit /\ [][WeightNext]_vars

----------------------------------------------------------------------------
(* The comparison run on two node sequences: main() of pedigree_main and   *)
(* of pedigree_json_comparator, and compare_pair of batch_compare, after   *)
(* the nodes are extracted.  Every step changes a document and runs        *)
(* compute_metrics, compute_extended_metrics and the scorer again.         *)

MaxNodes == 3

MaxShadingNodes == 2

Metrics(v, nodes) ==
    IF v = "pedigree_scoring" THEN compute_metrics(nodes)
    ELSE comparator_compute_metrics(nodes)

Ext(v, nodes) ==
    IF v = "pedigree_scoring" THEN compute_extended_metrics(nodes)
    ELSE comparator_compute_extended_metrics(nodes)

\* tuple(sorted((name, d))) on a node without a name: None is compared with
\* the string d and Python raises TypeError
DivorcedRaises(nodes) ==
    \E i \in DOMAIN nodes :
        /\ IsList(nodes[i].divorced_type)
        /\ nodes[i].name = NoneName
        /\ \E d \in Range(nodes[i].divorced) : Truthy(d)

\* [s for s in sibs if s] on a number: TypeError, an int is not iterable
SiblingsRaise(nodes) ==
    \E i \in DOMAIN nodes : nodes[i].siblings_type = "int"

\* the exception compute_extended_metrics of v ends with on nodes, or "none"
ExtRaises(v, nodes) ==
    IF v = "pedigree_scoring"
    THEN IF DivorcedRaises(nodes) THEN "TypeError" ELSE "none"
    ELSE IF DivorcedRaises(nodes) \/ SiblingsRaise(nodes) THEN "TypeError" ELSE "none"

\* a variable the run did not come to assign
NotComputed == [computed |-> FALSE]

\* the state after the comparison of golden with test by the functions of v:
\* main from the first compute_metrics on, ended by the first exception
ComparedVars(v, golden, test) ==
    LET gerr == ExtRaises(v, golden)
        terr == ExtRaises(v, test)
        err  == IF gerr # "none" THEN gerr ELSE terr
    IN  /\ golden_nodes' = golden
        /\ test_nodes' = test
        /\ golden_metrics' = Metrics(v, golden)
        /\ test_metrics' = Metrics(v, test)
        /\ golden_ext' = IF gerr = "none" THEN Ext(v, golden) ELSE NotComputed
        /\ test_ext' = IF err = "none" THEN Ext(v, test) ELSE NotComputed
        /\ score_data' = IF err = "none"
                         THEN Score(v, Metrics(v, golden), Metrics(v, test),
                                    Ext(v, golden), Ext(v, test))
                         ELSE NotComputed
        /\ raised' = IF err = "none" THEN NotRaised
                     ELSE Raised("compute_extended_metrics", err)

Compared(v, golden, test) ==
    /\ ComparedVars(v, golden, test)
    /\ UNCHANGED <<variant, weightVars, golden_data, test_data, results,
                   pair_index, calls, spreadsheet>>

CompareInit ==
    /\ variant \in Variants
    /\ golden_nodes = <<>>
    /\ test_nodes = <<>>
    /\ golden_metrics = Metrics(variant, <<>>)
    /\ test_metrics = Metrics(variant, <<>>)
    /\ golden_ext = Ext(variant, <<>>)
    /\ test_ext = Ext(variant, <<>>)
    /\ score_data = Score(variant, golden_metrics, test_metrics, golden_ext, test_ext)
    /\ n_levels = 0
    /\ weights = <<>>
    /\ DriverIdle

\* seq without its i-th element
RemoveAt(seq, i) == SubSeq(seq, 1, i - 1) \o SubSeq(seq, i + 1, Len(seq))

\* the golden document has one more node, drawn from U
GoldenGrows(U, max) ==
    /\ Len(golden_nodes) + Len(test_nodes) < max
    /\ \E n \in U : Compared(variant, Append(golden_nodes, n), test_nodes)

\* the candidate document has one more node, drawn from U
TestGrows(U, max) ==
    /\ Len(golden_nodes) + Len(test_nodes) < max
    /\ \E n \in U : Compared(variant, golden_nodes, Append(test_nodes, n))

\* the candidate is the golden document with one node dropped
TestDropsNode ==
    \E i \in 1..Len(golden_nodes) :
        /\ test_nodes # RemoveAt(golden_nodes, i)
        /\ Compared(variant, golden_nodes, RemoveAt(golden_nodes, i))

\* the candidate is the golden document itself
TestIsGolden ==
    /\ test_nodes # golden_nodes
    /\ Compared(variant, golden_nodes, golden_nodes)

\* nodes of a small family tree: A and B are the nodes of the scenario of the
\* specification's section 8
NodeA == [BlankNode EXCEPT !.name = "A", !.level = IntLevel(0), !.top_level = TRUE,
                           !.sex = "M"]

NodeB == [BlankNode EXCEPT !.name = "B", !.level = IntLevel(1), !.sex = "F",
                           !.father = "A", !.has_father = TRUE]

PipelineNodes ==
    {NodeA, NodeB,
     [BlankNode EXCEPT !.name = "C", !.level = IntLevel(1), !.sex = "M",
                       !.father = "A", !.has_father = TRUE,
                       !.mother = "B", !.has_mother = TRUE],
     [BlankNode EXCEPT !.name = "D", !.level = IntLevel(2), !.sex = "F",
                       !.miscarriage = TRUE],
     [BlankNode EXCEPT !.name = "E", !.level = IntLevel(0)],
     [BlankNode EXCEPT !.name = "F", !.sex = "F", !.top_level = TRUE]}

Next ==
    \/ GoldenGrows(PipelineNodes, MaxNodes)
    \/ TestGrows(PipelineNodes, MaxNodes)
    \/ TestDropsNode
    \/ TestIsGolden

Spec == CompareInit /\ [][Next]_vars

\* one document whose nodes differ in level and top_level only
LevelNodes ==
    {[BlankNode EXCEPT !.level = l, !.top_level = t] :
        l \in {IntLevel(0), IntLevel(1), IntLevel(2), NoneLevel}, t \in BOOLEAN}

LevelsNext == GoldenGrows(LevelNodes, MaxNodes)

SpecLevels == CompareInit /\ [][LevelsNext]_vars

\* one document whose nodes differ in name and siblings only
SiblingNodes ==
    {[BlankNode EXCEPT !.name = "X", !.siblings = <<"Y">>],
     [BlankNode EXCEPT !.name = "Y", !.siblings = <<"X">>],
     [BlankNode EXCEPT !.name = "X", !.siblings = <<"Y", "Z">>],
     [BlankNode EXCEPT !.name = "Y", !.siblings = <<"Z", "X">>],
     [BlankNode EXCEPT !.name = "Z", !.siblings = <<"X", "Y">>],
     [BlankNode EXCEPT !.name = "Z", !.siblings = <<"W">>],
     [BlankNode EXCEPT !.name = "X", !.siblings = <<"X">>],
     [BlankNode EXCEPT !.name = "Z"]}

SiblingsNext == GoldenGrows(SiblingNodes, MaxNodes)

SpecSiblings == CompareInit /\ [][SiblingsNext]_vars

\* shading patterns as lists of words
P_top_half_filled == <<W_TOP, W_HALF, W_FILLED>>

P_left_half_filled == <<W_LEFT, W_HALF, W_FILLED>>

P_cross_hatch == <<W_CROSS, W_HATCH>>

P_left_filled == <<W_LEFT, W_FILLED>>

\* the words written in lower case and joined by sep, or the same in upper case
Written(words, sep, upper) ==
    IF upper THEN Upper(JoinWith(words, <<sep>>))
    ELSE Lower(JoinWith(words, <<sep>>))

\* the spellings of one pattern: "cross-hatch", "cross hatch", "CROSS_HATCH"
Spellings(words) ==
    {Written(words, "-", FALSE), Written(words, " ", FALSE), Written(words, "_", TRUE)}

\* one document whose nodes differ in sex and shading only
ShadingNodes ==
    {[BlankNode EXCEPT !.sex = sx, !.shading = ShadingStr(str)] :
        sx \in {"M", "F"},
        str \in Spellings(P_top_half_filled) \cup Spellings(P_left_half_filled)
                \cup Spellings(P_cross_hatch) \cup {Written(P_left_filled, "-", FALSE)}}
    \cup {[BlankNode EXCEPT !.sex = "F",
              !.shading = ShadingStr(Lower(W_FILLED) \o <<" ">> \o W_female)],
          [BlankNode EXCEPT !.sex = "F",
              !.shading = ShadingList(<<Lower(W_FILLED), Written(P_top_half_filled, "-", FALSE)>>)]}

ShadingNext == GoldenGrows(ShadingNodes, MaxShadingNodes)

SpecShading == CompareInit /\ [][ShadingNext]_vars

----------------------------------------------------------------------------
(* Claims about the scorer, checked under SpecScore.                       *)

\* C1: for every pair of basic snapshots and every pair of extended snapshots
\* the final_score returned by either scorer lies between 0 and 100.
C1_FinalScoreInRange ==
    /\ RLe(RInt(0), score_data.final_score)
    /\ RLe(score_data.final_score, RInt(100))

\* the deductions exceed 100 and the score is held at 0
C1_Witness ==
    /\ RLt(RInt(100), score_data.total_deductions)
    /\ score_data.final_score = RInt(0)

\* C2: comparing a graph's snapshots with themselves gives tier deductions 0,
\* total deductions 0 and final_score 100.
C2_Identity ==
    (golden_metrics = test_metrics /\ golden_ext = test_ext) =>
        /\ score_data.tier1_deductions = RInt(0)
        /\ score_data.tier2_deductions = RInt(0)
        /\ score_data.tier3_deductions = RInt(0)
        /\ score_data.total_deductions = RInt(0)
        /\ score_data.final_score = RInt(100)

\* a graph with several counts that are not 0, scored against itself
C2_Witness ==
    /\ variant = "pedigree_scoring"
    /\ golden_metrics = test_metrics
    /\ golden_ext = test_ext
    /\ NonZero(ScoringFields, golden_metrics, golden_ext) >= 2
    /\ score_data.final_score = RInt(100)

\* C3: in pedigree_scoring the weights that combine the tiers are the weights
\* that are reported: total_deductions is the sum of the three weighted tiers
\* and, when the score is not clamped, final_score is 100 minus that sum.
C3_WeightsConsistent ==
    variant = "pedigree_scoring" =>
        LET weighted == RAdd(RAdd(score_data.tier1_weighted, score_data.tier2_weighted),
                             score_data.tier3_weighted)
        IN  /\ score_data.total_deductions = weighted
            /\ RLe(weighted, RInt(100)) =>
                   score_data.final_score = RSub(RInt(100), weighted)

\* the tier a count feeds
TierOfField(f) ==
    IF f[1] \in {"generations", "level", "gender"} THEN "tier1_deductions"
    ELSE IF f[1] \in {"metrics", "partnerships"} THEN "tier2_deductions"
    ELSE "tier3_deductions"

\* the step changes count f of the candidate, and nothing else, so that the
\* count is further from the golden one than before
CandidateMovesAway(f) ==
    LET golden == FieldValue(golden_metrics, golden_ext, f)
        old    == FieldValue(test_metrics, test_ext, f)
        new    == FieldValue(test_metrics', test_ext', f)
    IN  /\ golden_metrics' = golden_metrics
        /\ golden_ext' = golden_ext
        /\ test_metrics' = SetMetrics(test_metrics, f, new)
        /\ test_ext' = SetExt(test_ext, f, new)
        /\ Abs(golden - new) > Abs(golden - old)

\* C4: moving a single count of the candidate further from the golden value
\* never decreases the deduction of the tier the count feeds and never
\* increases final_score.
C4_Monotone ==
    [][variant = "pedigree_scoring" =>
         \A f \in ScoringFields :
             CandidateMovesAway(f) =>
                 /\ RLe(score_data[TierOfField(f)], score_data'[TierOfField(f)])
                 /\ RLe(score_data'.final_score, score_data.final_score)]_vars

----------------------------------------------------------------------------
(* Claims about calculate_generation_weight, checked under SpecWeight.     *)

----------------------------------------------------------------------------
(* Claims about the metrics of one document and about the whole comparison *)

\* a shading string with its case and its three separators made the same
C6_Canon(str) == Replace(Replace(Upper(str), <<"-">>, <<"_">>), <<" ">>, <<"_">>)

\* two nodes of one sex whose shading strings differ in case and separators only
C6_SameShading(a, b) ==
    /\ a.sex = b.sex
    /\ a.sex \in {"M", "F"}
    /\ ~a.miscarriage /\ ~b.miscarriage
    /\ a.shading[1] = "str" /\ b.shading[1] = "str"
    /\ C6_Canon(a.shading[2]) = C6_Canon(b.shading[2])

\* C6: shading strings of nodes of one sex that differ only in letter case and
\* in "-", " " or "_" between the words normalise to one token: in a document
\* of such nodes either every node is counted under one disease pattern or
\* every node is dropped.
C6_ShadingInsensitive ==
    LET dc == golden_ext.shading.disease_counts
    IN  (/\ Len(golden_nodes) >= 2
         /\ \A i, j \in 1..Len(golden_nodes) :
                C6_SameShading(golden_nodes[i], golden_nodes[j]))
        => \/ DOMAIN dc = {}
           \/ \E k \in DOMAIN dc : DOMAIN dc = {k} /\ dc[k] = Len(golden_nodes)

\* the 14 suffixes the specification lists
C7_Suffixes ==
    {<<W_BOTTOM, W_HALF, W_FILLED>>, <<W_CHECKERED>>, <<W_CROSS, W_FILLED>>,
     <<W_DIAGONAL, W_CHECKERED>>, <<W_DIAGONAL, W_STROKES>>, <<W_FILLED>>,
     <<W_HORIZONTAL, W_STROKES>>, <<W_LEFT, W_HALF, W_FILLED>>,
     <<W_RIGHT, W_HALF, W_FILLED>>, <<W_TOP, W_HALF, W_FILLED>>,
     <<W_TOP, W_HALF, W_STROKES>>, <<W_TOP, W_LEFT, W_QUARTER, W_FILLED>>,
     <<W_TOP, W_RIGHT, W_QUARTER, W_FILLED>>, <<W_VERTICAL, W_STROKES>>}

\* CIRCLE_X and SQUARE_X for each of them
C7_Vocabulary ==
    {Tok(<<shape>> \o sfx) : shape \in {W_CIRCLE, W_SQUARE}, sfx \in C7_Suffixes}

\* C7: every key of shading.disease_counts is one of the 28 tokens CIRCLE_X,
\* SQUARE_X of the 14 listed suffixes, and a male node is counted exactly when
\* a female node with the same shading is counted: of a male and a female
\* node with one shading string, both or none are counted.
C7_Vocabulary28 ==
    LET dc == golden_ext.shading.disease_counts
    IN  /\ DOMAIN dc \subseteq C7_Vocabulary
        /\ (/\ Len(golden_nodes) = 2
            /\ golden_nodes[1].sex = "M"
            /\ golden_nodes[2].sex = "F"
            /\ golden_nodes[1].shading = golden_nodes[2].shading
            /\ golden_nodes[1].shading[1] = "str")
           => Cardinality(DOMAIN dc) \in {0, 2}

\* the nodes the inclusion rule lets through: all but the level-0 nodes whose
\* top_level is not truthy
C8_Passes(n) == ~(n.level = IntLevel(0) /\ ~n.top_level)

\* C8: generations_count is the number of distinct levels of the nodes that
\* pass the inclusion rule, and nodes_per_level counts those nodes per level;
\* a level-0 node without top_level adds to neither.
C8_LevelInclusion ==
    LET passing == {i \in 1..Len(golden_nodes) : C8_Passes(golden_nodes[i])}
        levels  == {golden_nodes[i].level : i \in passing}
        st      == golden_ext.structural
    IN  /\ st.generations_count = Cardinality(levels)
        /\ DOMAIN st.nodes_per_level = levels
        /\ \A l \in levels :
               st.nodes_per_level[l] =
                   Cardinality({i \in passing : golden_nodes[i].level = l})

\* |male difference| + |female difference| of the two gender distributions
C9_MaleFemaleDiff ==
    LET gg == golden_ext.gender_and_naming.gender_distribution
        tg == test_ext.gender_and_naming.gender_distribution
    IN  Abs(Get(gg, "MALE", 0) - Get(tg, "MALE", 0))
        + Abs(Get(gg, "FEMALE", 0) - Get(tg, "FEMALE", 0))

\* the candidate is the golden sequence without its i-th node, a node of sex
\* M or F that is no miscarriage
C9_Dropped(i) ==
    /\ test_nodes = RemoveAt(golden_nodes, i)
    /\ golden_nodes[i].sex \in {"M", "F"}
    /\ ~golden_nodes[i].miscarriage

\* C9: a candidate that is the golden sequence without one non-miscarriage
\* node of sex M or F has a male/female difference of 1, tier1_deductions > 0
\* and final_score < 100; a candidate identical to the golden scores 100, and
\* for the golden [A, B] generations_count is 2 on both sides.
C9_DroppedNode ==
    /\ (\E i \in 1..Len(golden_nodes) : C9_Dropped(i)) =>
           /\ C9_MaleFemaleDiff = 1
           /\ RLt(RInt(0), score_data.tier1_deductions)
           /\ RLt(score_data.final_score, RInt(100))
    /\ test_nodes = golden_nodes =>
           /\ score_data.final_score = RInt(100)
           /\ golden_nodes = <<NodeA, NodeB>> =>
                  /\ golden_ext.structural.generations_count = 2
                  /\ test_ext.structural.generations_count = 2

\* golden [A, B] against the candidate [A], which drops B
C9_Witness ==
    /\ golden_nodes = <<NodeA, NodeB>>
    /\ test_nodes = <<NodeA>>
    /\ C9_MaleFemaleDiff = 1
    /\ RLt(score_data.final_score, RInt(100))

\* C10: in pedigree_json_comparator sibling_groups_count is the number of
\* distinct sets {self} \cup siblings with more than one member, over the nodes
\* with a non-empty siblings list; X listing Y and Y listing X make one group.
C10_SiblingGroups ==
    variant = "pedigree_json_comparator" =>
        golden_ext.parent_child_and_siblings.sibling_groups_count =
            Cardinality({g \in {{golden_nodes[i].name} \cup Range(golden_nodes[i].siblings) :
                                   i \in {j \in 1..Len(golden_nodes) :
                                             golden_nodes[j].siblings # <<>>}} :
                            Cardinality(g) > 1})

\* Y listing X after X listing Y: two nodes, one group
C10_Witness ==
    /\ variant = "pedigree_json_comparator"
    /\ Len(golden_nodes) = 2
    /\ golden_nodes[1].name = "X" /\ golden_nodes[1].siblings = <<"Y">>
    /\ golden_nodes[2].name = "Y" /\ golden_nodes[2].siblings = <<"X">>
    /\ golden_ext.parent_child_and_siblings.sibling_groups_count = 1

----------------------------------------------------------------------------
(* Documents: load_json_file, extract_nodes and main.  A file is missing,  *)
(* holds text that is no JSON, or holds a JSON value; a JSON value is      *)
(* null, a number, a string, a list or a dict.                             *)

W_json == <<"j", "s", "o", "n">>

JNull == [kind |-> "null"]

JInt == [kind |-> "int"]

JStr(chars) == [kind |-> "str", chars |-> chars]

JList(items) == [kind |-> "list", items |-> items]

JDict(entries) == [kind |-> "dict", entries |-> entries]

\* the dict without keys
NoEntries == [k \in {} |-> JNull]

MissingFile == [kind |-> "missing"]

InvalidFile == [kind |-> "invalid"]

JsonFile(value) == [kind |-> "json", value |-> value]

\* a call returned value / a call raised error
Ok(value) == [error |-> "none", value |-> value]

Fails(error) == [error |-> error]

load_json_file(file) ==
    IF file.kind = "missing" THEN Fails("FileNotFoundError")
    ELSE IF file.kind = "invalid" THEN Fails("ValueError")
    ELSE Ok(file.value)

\* sub in str, for strings
IsSubstring(sub, str) ==
    \E i \in 0..(Len(str) - Len(sub)) : SubSeq(str, i + 1, i + Len(sub)) = sub

\* "json" in x: a key of a dict, an item of a list, a substring of a string;
\* TypeError for null and for a number
In_json(x) ==
    CASE x.kind = "dict" -> IF "json" \in DOMAIN x.entries THEN "True" ELSE "False"
      [] x.kind = "list" -> IF \E i \in DOMAIN x.items : x.items[i] = JStr(W_json)
                            THEN "True" ELSE "False"
      [] x.kind = "str"  -> IF IsSubstring(W_json, x.chars) THEN "True" ELSE "False"
      [] OTHER           -> "TypeError"

\* x["json"]: the value of a dict; TypeError for a list and for a string
GetItem_json(x) ==
    IF x.kind = "dict" THEN Ok(x.entries["json"]) ELSE Fails("TypeError")

extract_nodes(json_data) ==
    LET rest == IF json_data.kind = "list" THEN Ok(json_data)
                ELSE IF json_data.kind = "dict" /\ "json" \in DOMAIN json_data.entries
                     THEN Ok(json_data.entries["json"])
                     ELSE Fails("ValueError")
    IN  IF json_data.kind = "dict" /\ "original_json" \in DOMAIN json_data.entries
        THEN LET inner == json_data.entries["original_json"]
             IN  IF In_json(inner) = "TypeError" THEN Fails("TypeError")
                 ELSE IF In_json(inner) = "True" THEN GetItem_json(inner)
                 ELSE rest
        ELSE rest

\* the exception compute_metrics ends with on a value extract_nodes returned:
\* len(None) and len(5) raise TypeError, a character or a key has no get
MetricsRaises(value) ==
    CASE value.kind = "list" -> "none"
      [] value.kind = "str"  -> IF value.chars = <<>> THEN "none" ELSE "AttributeError"
      [] value.kind = "dict" -> IF DOMAIN value.entries = {} THEN "none" ELSE "AttributeError"
      [] OTHER               -> "TypeError"

\* the nodes the metric functions iterate over
NodeSeq(value) == IF value.kind = "list" THEN value.items ELSE <<>>

\* the try block of main (and of compare_pair) on two files that exist: the
\* statements run in turn and the first exception ends the block
MainSteps(v, gfile, tfile) ==
    LET gl        == load_json_file(gfile)
        tl        == load_json_file(tfile)
        loaded    == gl.error = "none" /\ tl.error = "none"
        gx        == extract_nodes(gl.value)
        tx        == extract_nodes(tl.value)
        gotGolden == loaded /\ gx.error = "none"
        extracted == gotGolden /\ tx.error = "none"
        gmerr     == MetricsRaises(gx.value)
        tmerr     == MetricsRaises(tx.value)
        measured  == extracted /\ gmerr = "none" /\ tmerr = "none"
    IN  /\ golden_data' = gfile
        /\ test_data' = tfile
        /\ IF measured
           THEN ComparedVars(v, NodeSeq(gx.value), NodeSeq(tx.value))
           ELSE /\ golden_nodes' = IF gotGolden THEN NodeSeq(gx.value) ELSE <<>>
                /\ test_nodes' = IF extracted THEN NodeSeq(tx.value) ELSE <<>>
                /\ golden_metrics' = IF extracted /\ gmerr = "none"
                                     THEN Metrics(v, NodeSeq(gx.value)) ELSE NotComputed
                /\ test_metrics' = NotComputed
                /\ golden_ext' = NotComputed
                /\ test_ext' = NotComputed
                /\ score_data' = NotComputed
                /\ raised' =
                     IF gl.error # "none" THEN Raised("load_json_file", gl.error)
                     ELSE IF tl.error # "none" THEN Raised("load_json_file", tl.error)
                     ELSE IF gx.error # "none" THEN Raised("extract_nodes", gx.error)
                     ELSE IF tx.error # "none" THEN Raised("extract_nodes", tx.error)
                     ELSE IF gmerr # "none" THEN Raised("compute_metrics", gmerr)
                     ELSE Raised("compute_metrics", tmerr)

\* main on two files that exist
MainRuns(Files) ==
    \E gfile, tfile \in Files :
        /\ gfile.kind # "missing" /\ tfile.kind # "missing"
        /\ MainSteps(variant, gfile, tfile)
        /\ UNCHANGED <<variant, weightVars, results, pair_index, calls, spreadsheet>>

\* main when a file is missing: sys.exit(1) before anything is loaded
MainExits(Files) ==
    \E gfile, tfile \in Files :
        /\ gfile.kind = "missing" \/ tfile.kind = "missing"
        /\ golden_data' = gfile
        /\ test_data' = tfile
        /\ raised' = Raised("main", "SystemExit")
        /\ UNCHANGED <<variant, golden_nodes, test_nodes, golden_metrics, test_metrics,
                       golden_ext, test_ext, score_data, weightVars, results,
                       pair_index, calls, spreadsheet>>

\* the files main is run on
MainFiles ==
    {MissingFile, InvalidFile,
     JsonFile(JList(<<NodeA, NodeB>>)),
     JsonFile(JDict([original_json |-> JDict([json |-> JList(<<NodeA>>)]),
                     json |-> JList(<<NodeB>>)])),
     JsonFile(JDict([json |-> JList(<<NodeA, NodeB>>)])),
     JsonFile(JDict([original_json |-> JDict(NoEntries), json |-> JList(<<NodeA>>)])),
     JsonFile(JDict([original_json |-> JDict(NoEntries)])),
     JsonFile(JDict([original_json |-> JNull])),
     JsonFile(JDict([original_json |-> JInt])),
     JsonFile(JDict([original_json |-> JStr(<<"a", "b", "c">>)])),
     JsonFile(JDict([original_json |-> JStr(<<"x">> \o W_json)])),
     JsonFile(JDict([original_json |-> JList(<<JStr(W_json)>>)])),
     JsonFile(JDict([json |-> JNull])),
     JsonFile(JDict(NoEntries)),
     JsonFile(JNull),
     JsonFile(JStr(W_json))}

MainNext == MainRuns(MainFiles) \/ MainExits(MainFiles)

SpecMain == CompareInit /\ [][MainNext]_vars

----------------------------------------------------------------------------
(* Documents whose nodes lack fields or hold fields of another type.       *)

MaxFieldNodes == 1

\* nodes with any subset of name, level, sex, partners, divorced and siblings
\* absent (or null, which n.get reads the same)
AbsentNodes ==
    {[BlankNode EXCEPT !.name = nm, !.level = lv, !.sex = sx,
                       !.partners = pa, !.divorced = dv, !.siblings = sb] :
        nm \in {NoneName, "A"}, lv \in {NoneLevel, IntLevel(1)}, sx \in {NoneName, "F"},
        pa \in {<<>>, <<"X">>}, dv \in {<<>>, <<"X">>}, sb \in {<<>>, <<"X">>}}

AbsentNext == GoldenGrows(AbsentNodes, MaxFieldNodes)

SpecAbsent == CompareInit /\ [][AbsentNext]_vars

\* nodes named A whose partners, divorced, siblings or shading are absent,
\* well-formed or of another type: a string, a number
MalformedNodes ==
    {[BlankNode EXCEPT !.name = "A", !.sex = "M",
                       !.partners = pa[1], !.partners_type = pa[2],
                       !.divorced = dv[1], !.divorced_type = dv[2],
                       !.siblings = sb[1], !.siblings_type = sb[2],
                       !.shading = sh] :
        pa \in {<< <<>>, "list">>, << <<"B">>, "list">>, << <<"B">>, "str">>, << <<>>, "int">>},
        dv \in {<< <<>>, "list">>, << <<"B">>, "str">>, << <<>>, "int">>},
        sb \in {<< <<>>, "list">>, << <<"Y", "Z">>, "str">>, << <<>>, "int">>},
        sh \in {NoShading, ShadingOther}}

MalformedNext == GoldenGrows(MalformedNodes, MaxFieldNodes)

SpecMalformed == CompareInit /\ [][MalformedNext]_vars

----------------------------------------------------------------------------
(* batch_compare: compare_pair and the loop over the pair indices.         *)

MaxPairs == 2

\* the 'Score' cell of a row: a number or the text 'Error'
ErrorCell == [text |-> "Error"]

NumberCell(score) == [number |-> score]

\* score or 'Error': a score of 0.0 is falsy and reads as a failure
ScoreCell_Falsy(score) ==
    IF score = PyNone \/ score = RInt(0) THEN ErrorCell ELSE NumberCell(score)

\* score if score is not None else 'Error'
ScoreCell(score) ==
    IF score = PyNone THEN ErrorCell ELSE NumberCell(score)

\* a node that differs from an absent one in every scored count
RichNode ==
    [BlankNode EXCEPT !.name = "R", !.level = IntLevel(0), !.top_level = TRUE, !.sex = "M",
                      !.noparents = TRUE, !.partners = <<"P">>, !.siblings = <<"S">>,
                      !.shading = ShadingStr(Lower(W_FILLED)), !.status = 1,
                      !.adopted_in = TRUE, !.adopted_out = TRUE,
                      !.dztwin = <<"int", 1>>, !.mztwin = <<"int", 1>>]

\* the files found under golden_jsons/ and detectron_jsons/: none, text that
\* is no JSON, a document extract_nodes rejects, and documents without
\* nodes, with two nodes and with ten nodes
BatchFiles ==
    {MissingFile, InvalidFile,
     JsonFile(JDict([original_json |-> JNull])),
     JsonFile(JList(<<>>)),
     JsonFile(JDict([json |-> JList(<<NodeA, NodeB>>)])),
     JsonFile(JList([i \in 1..10 |-> RichNode]))}

\* a pair is compared as soon as one of its files exists
BothExist_Either(gfile, tfile) == gfile.kind # "missing" \/ tfile.kind # "missing"

\* os.path.exists(golden_file) and os.path.exists(detectron_file)
BothExist(gfile, tfile) == gfile.kind # "missing" /\ tfile.kind # "missing"

\* one pass of the loop body, for the index after pair_index: when both files
\* exist compare_pair runs and a row is appended
BatchIteration(Files) ==
    /\ pair_index < MaxPairs
    /\ pair_index' = pair_index + 1
    /\ \E gfile, tfile \in Files :
          IF BothExist(gfile, tfile)
          THEN /\ MainSteps(variant, gfile, tfile)
               /\ results' =
                    Append(results,
                           [index |-> pair_index + 1,
                            score |-> ScoreCell(IF raised'.error = "none"
                                                THEN score_data'.final_score
                                                ELSE PyNone)])
          ELSE /\ golden_data' = gfile
               /\ test_data' = tfile
               /\ UNCHANGED <<golden_nodes, test_nodes, golden_metrics, test_metrics,
                              golden_ext, test_ext, score_data, raised, results>>
    /\ UNCHANGED <<variant, weightVars, calls, spreadsheet>>

\* after the loop: pd.DataFrame(results) is written to the spreadsheet and
\* the script ends
BatchWrites ==
    /\ pair_index = MaxPairs
    /\ spreadsheet = NotWritten
    /\ spreadsheet' = [written |-> TRUE, rows |-> results]
    /\ UNCHANGED <<variant, golden_nodes, test_nodes, golden_metrics, test_metrics,
                   golden_ext, test_ext, score_data, weightVars, golden_data, test_data,
                   results, pair_index, raised, calls>>

BatchInit ==
    /\ CompareInit
    /\ variant = "pedigree_scoring"

BatchNext == BatchIteration(BatchFiles) \/ BatchWrites

SpecBatch == BatchInit /\ [][BatchNext]_vars

----------------------------------------------------------------------------
(* Calls made one by one on documents already compared: what each function *)
(* leaves in the objects it was given.                                     *)

MaxCalls == 3

MaxCallNodes == 2

\* n.setdefault("level", 0) in place of n.get("level"): the read writes the
\* default into the node
NodesAfter_Defaulting(nodes) ==
    [i \in DOMAIN nodes |->
        [nodes[i] EXCEPT !.level = IF @ = NoneLevel THEN IntLevel(0) ELSE @]]

\* the node list after compute_metrics or compute_extended_metrics ran on it:
\* the nodes are read with n.get(...) and every counter, map and set that is
\* written is a local of the call
NodesAfter(nodes) == nodes

\* a snapshot after calculate_comprehensive_score ran on it: the counts are
\* read with [...] on keys that exist and with .get(key, 0), and the result
\* is a new dict
SnapshotAfter(snapshot) == snapshot

\* compute_metrics is called once more on one of the documents
CallComputeMetrics ==
    /\ calls < MaxCalls
    /\ calls' = calls + 1
    /\ \/ /\ golden_metrics' = Metrics(variant, golden_nodes)
          /\ golden_nodes' = NodesAfter(golden_nodes)
          /\ UNCHANGED <<test_nodes, test_metrics>>
       \/ /\ test_metrics' = Metrics(variant, test_nodes)
          /\ test_nodes' = NodesAfter(test_nodes)
          /\ UNCHANGED <<golden_nodes, golden_metrics>>
    /\ UNCHANGED <<variant, golden_ext, test_ext, score_data, weightVars,
                   golden_data, test_data, results, pair_index, raised, spreadsheet>>

\* compute_extended_metrics is called once more on one of the documents
CallComputeExtendedMetrics ==
    /\ calls < MaxCalls
    /\ calls' = calls + 1
    /\ \/ /\ golden_ext' = Ext(variant, golden_nodes)
          /\ golden_nodes' = NodesAfter(golden_nodes)
          /\ UNCHANGED <<test_nodes, test_ext>>
       \/ /\ test_ext' = Ext(variant, test_nodes)
          /\ test_nodes' = NodesAfter(test_nodes)
          /\ UNCHANGED <<golden_nodes, golden_ext>>
    /\ UNCHANGED <<variant, golden_metrics, test_metrics, score_data, weightVars,
                   golden_data, test_data, results, pair_index, raised, spreadsheet>>

\* calculate_comprehensive_score is called once more on the four snapshots
CallScore ==
    /\ calls < MaxCalls
    /\ calls' = calls + 1
    /\ score_data' = Score(variant, golden_metrics, test_metrics, golden_ext, test_ext)
    /\ golden_metrics' = SnapshotAfter(golden_metrics)
    /\ test_metrics' = SnapshotAfter(test_metrics)
    /\ golden_ext' = SnapshotAfter(golden_ext)
    /\ test_ext' = SnapshotAfter(test_ext)
    /\ UNCHANGED <<variant, golden_nodes, test_nodes, weightVars,
                   golden_data, test_data, results, pair_index, raised, spreadsheet>>

CallsNext ==
    \/ GoldenGrows(PipelineNodes, MaxCallNodes)
    \/ TestGrows(PipelineNodes, MaxCallNodes)
    \/ CallComputeMetrics
    \/ CallComputeExtendedMetrics
    \/ CallScore

SpecCalls == CompareInit /\ [][CallsNext]_vars

----------------------------------------------------------------------------
(* Documents of pedigree_json_comparator whose nodes differ in what the    *)
(* consistency checks and the spatial section report.                      *)

MaxUnscoredNodes == 4

NodeX == [BlankNode EXCEPT !.name = "A", !.level = IntLevel(0), !.sex = "M"]

\* nodes alike in level and sex: two with boxes that overlap, one named B
\* with a box apart, one that lists siblings, and one that lists a partner
\* and a father
UnscoredNodes ==
    {[NodeX EXCEPT !.coordinates = <<0, 0, 2, 2>>, !.center = <<1, 1>>],
     [NodeX EXCEPT !.coordinates = <<3, 3, 1, 1>>, !.center = <<2, 4>>],
     [NodeX EXCEPT !.name = "B", !.coordinates = <<5, 5, 6, 6>>],
     [NodeX EXCEPT !.siblings = <<"A", "B">>],
     [NodeX EXCEPT !.partners = <<"B">>, !.father = "A", !.has_father = TRUE,
                   !.top_level = TRUE]}

UnscoredInit ==
    /\ CompareInit
    /\ variant = "pedigree_json_comparator"

UnscoredNext ==
    \/ GoldenGrows(UnscoredNodes, MaxUnscoredNodes)
    \/ TestGrows(UnscoredNodes, MaxUnscoredNodes)

SpecUnscored == UnscoredInit /\ [][UnscoredNext]_vars

----------------------------------------------------------------------------
(* Documents whose nodes list partners.                                    *)

MaxPartnerNodes == 3

\* A lists B; B lists A; a second A lists C; A lists itself; A lists B twice
\* and itself; a node without name and a node named "" list B; A lists ""
\* and null; C lists nobody
PartnerNodes ==
    {[BlankNode EXCEPT !.name = "A", !.partners = <<"B">>],
     [BlankNode EXCEPT !.name = "B", !.partners = <<"A">>],
     [BlankNode EXCEPT !.name = "A", !.partners = <<"C">>],
     [BlankNode EXCEPT !.name = "A", !.partners = <<"A">>],
     [BlankNode EXCEPT !.name = "A", !.partners = <<"B", "A", "B">>],
     [BlankNode EXCEPT !.partners = <<"B">>],
     [BlankNode EXCEPT !.name = "", !.partners = <<"B">>],
     [BlankNode EXCEPT !.name = "A", !.partners = <<"", NoneName>>],
     [BlankNode EXCEPT !.name = "C"]}

PartnersNext == GoldenGrows(PartnerNodes, MaxPartnerNodes)

SpecPartners == CompareInit /\ [][PartnersNext]_vars

----------------------------------------------------------------------------
(* Documents whose nodes list divorces.                                    *)

MaxDivorceNodes == 3

\* A lists B; B lists A; A lists itself and ""; a node without name and a
\* node named "" list B; C lists nobody
DivorceNodes ==
    {[BlankNode EXCEPT !.name = "A", !.divorced = <<"B">>],
     [BlankNode EXCEPT !.name = "B", !.divorced = <<"A">>],
     [BlankNode EXCEPT !.name = "A", !.divorced = <<"A", "">>],
     [BlankNode EXCEPT !.divorced = <<"B">>],
     [BlankNode EXCEPT !.name = "", !.divorced = <<"B">>],
     [BlankNode EXCEPT !.name = "C"]}

DivorcesNext == GoldenGrows(DivorceNodes, MaxDivorceNodes)

SpecDivorces == CompareInit /\ [][DivorcesNext]_vars

----------------------------------------------------------------------------
(* The scorer on snapshots that differ in the counts of one tier.          *)

\* the counts the first tier reads, among them a level that is None
Tier1Fields ==
    {<<"generations", "generations_count">>,
     <<"level", IntLevel(0)>>, <<"level", IntLevel(2)>>, <<"level", NoneLevel>>,
     <<"gender", "MALE">>, <<"gender", "FEMALE">>, <<"gender", "MISCARRIAGE">>}

Tier1Next ==
    \/ ScoreGoldenChanged(Tier1Fields)
    \/ ScoreTestChanged(Tier1Fields)

SpecTier1 == ScoreInit /\ [][Tier1Next]_vars

\* the counts the second tier of either scorer reads, as far as the
\* snapshots of the variant hold them
Tier2Fields(v) ==
    IF v = "pedigree_scoring"
    THEN {<<"metrics", "nodes_with_no_parents_true">>, <<"metrics", "nodes_with_one_partner">>,
          <<"metrics", "nodes_with_multiple_partners">>, <<"metrics", "nodes_with_siblings">>,
          <<"metrics", "nodes_with_1_sibling">>, <<"metrics", "nodes_with_2_siblings">>,
          <<"metrics", "nodes_with_3_siblings">>, <<"metrics", "nodes_with_4_siblings">>,
          <<"metrics", "nodes_with_5_or_more_siblings">>,
          <<"partnerships", "partnerships_count">>, <<"partnerships", "divorces_count">>}
    ELSE {<<"metrics", "nodes_with_mother">>, <<"metrics", "nodes_with_father">>,
          <<"partnerships", "partnerships_count">>, <<"partnerships", "divorces_count">>,
          <<"metrics", "nodes_with_no_parents_true">>, <<"metrics", "nodes_with_partner">>}

Tier2Next ==
    \/ ScoreGoldenChanged(Tier2Fields(variant))
    \/ ScoreTestChanged(Tier2Fields(variant))

SpecTier2 == ScoreInit /\ [][Tier2Next]_vars

\* the counts the third tier reads, and the symbols it does not read
Tier3Fields ==
    {<<"disease", Tok(<<W_SQUARE, W_FILLED>>)>>, <<"disease", Tok(<<W_CIRCLE, W_HATCH>>)>>,
     <<"symbol", "Deceased">>, <<"symbol", "Adopted_in">>, <<"symbol", "Adopted_out">>,
     <<"symbol", "Divorce">>, <<"symbol", "Patient">>, <<"symbol", "Carrier">>,
     <<"edges", "dztwin_count">>, <<"edges", "mztwin_count">>}

Tier3Next ==
    \/ ScoreGoldenChanged(Tier3Fields)
    \/ ScoreTestChanged(Tier3Fields)

SpecTier3 == ScoreInit /\ [][Tier3Next]_vars

----------------------------------------------------------------------------
(* Documents of pedigree_core whose nodes set the fields of one counter.   *)

MaxCounterNodes == 3

CoreInit ==
    /\ CompareInit
    /\ variant = "pedigree_scoring"

\* nodes with no sibling, with one to six siblings, and with a siblings
\* field that is a string
BucketNodes ==
    {[BlankNode EXCEPT !.name = "A"],
     [BlankNode EXCEPT !.name = "A", !.siblings = <<"B">>],
     [BlankNode EXCEPT !.name = "A", !.siblings = <<"B", "C">>],
     [BlankNode EXCEPT !.name = "A", !.siblings = <<"B", "C", "D">>],
     [BlankNode EXCEPT !.name = "A", !.siblings = <<"B", "C", "D", "E">>],
     [BlankNode EXCEPT !.name = "A", !.siblings = <<"B", "C", "D", "E", "F">>],
     [BlankNode EXCEPT !.siblings = <<"B", "C", "D", "E", "F", "G">>],
     [BlankNode EXCEPT !.name = "A", !.siblings = <<"Y", "Z">>, !.siblings_type = "str"]}

BucketsNext == GoldenGrows(BucketNodes, MaxCounterNodes)

SpecBuckets == CoreInit /\ [][BucketsNext]_vars

\* nodes of sex "M", "F", "U", "m" and without sex, and nodes with the
\* miscarriage flag, of sex "M", "F" and without sex
GenderNodes ==
    {[BlankNode EXCEPT !.sex = "M"], [BlankNode EXCEPT !.sex = "F"],
     [BlankNode EXCEPT !.sex = "U"], [BlankNode EXCEPT !.sex = "m"],
     BlankNode,
     [BlankNode EXCEPT !.sex = "M", !.miscarriage = TRUE],
     [BlankNode EXCEPT !.sex = "F", !.miscarriage = TRUE],
     [BlankNode EXCEPT !.miscarriage = TRUE]}

GenderNext == GoldenGrows(GenderNodes, MaxCounterNodes)

SpecGender == CompareInit /\ [][GenderNext]_vars

\* nodes with one of the fields the symbols are counted from, a node with
\* a carrier field, and a node with all of them
SymbolNodes ==
    {[BlankNode EXCEPT !.name = "A", !.status = 1],
     [BlankNode EXCEPT !.name = "A", !.status = 2],
     [BlankNode EXCEPT !.name = "A", !.adopted_in = TRUE],
     [BlankNode EXCEPT !.name = "A", !.adopted_out = TRUE],
     [BlankNode EXCEPT !.name = "A", !.proband = TRUE],
     [BlankNode EXCEPT !.name = "A", !.divorced = <<"B">>],
     [BlankNode EXCEPT !.name = "A", !.divorced = <<"">>],
     [BlankNode EXCEPT !.name = "A", !.carrier = TRUE],
     [BlankNode EXCEPT !.name = "A", !.status = 1, !.adopted_in = TRUE,
                       !.adopted_out = TRUE, !.proband = TRUE, !.divorced = <<"B">>,
                       !.carrier = TRUE]}

SymbolsNext == GoldenGrows(SymbolNodes, MaxCounterNodes)

SpecSymbols == CompareInit /\ [][SymbolsNext]_vars

\* nodes whose dztwin or mztwin is 1, 2, true, false or "1", and a node
\* without either
TwinNodes ==
    {[BlankNode EXCEPT !.name = "A", !.dztwin = <<"int", 1>>],
     [BlankNode EXCEPT !.name = "A", !.dztwin = <<"int", 2>>],
     [BlankNode EXCEPT !.name = "A", !.dztwin = <<"bool", TRUE>>],
     [BlankNode EXCEPT !.name = "A", !.dztwin = <<"str", "1">>],
     [BlankNode EXCEPT !.name = "A", !.mztwin = <<"int", 1>>],
     [BlankNode EXCEPT !.name = "A", !.mztwin = <<"bool", TRUE>>],
     [BlankNode EXCEPT !.name = "A", !.mztwin = <<"bool", FALSE>>],
     [BlankNode EXCEPT !.name = "A"]}

TwinsNext == GoldenGrows(TwinNodes, MaxCounterNodes)

SpecTwins == CompareInit /\ [][TwinsNext]_vars

----------------------------------------------------------------------------
(* Claims about documents, failures and the batch driver                   *)

\* the three shapes extract_nodes is said to accept
C11_ShapeA(d) ==
    /\ d.kind = "dict"
    /\ "original_json" \in DOMAIN d.entries
    /\ d.entries["original_json"].kind = "dict"
    /\ "json" \in DOMAIN d.entries["original_json"].entries

C11_ShapeB(d) == d.kind = "list"

C11_ShapeC(d) == d.kind = "dict" /\ "json" \in DOMAIN d.entries

C11_Accepted(d) == C11_ShapeA(d) \/ C11_ShapeB(d) \/ C11_ShapeC(d)

\* the array of an accepted document, (a) before (b) before (c)
C11_Array(d) ==
    IF C11_ShapeA(d) THEN d.entries["original_json"].entries["json"]
    ELSE IF C11_ShapeB(d) THEN d
    ELSE d.entries["json"]

\* C11: extract_nodes returns the array of a document of shape (a), (b) or
\* (c), in this priority, and fails on every other document with ValueError
\* and with no other error.  Stated of the golden document of a run of main
\* whose two files were loaded.
C11_ExtractNodes ==
    (golden_data.kind = "json" /\ test_data.kind = "json") =>
        LET d == golden_data.value
        IN  IF C11_Accepted(d)
            THEN /\ C11_Array(d).kind = "list" => golden_nodes = C11_Array(d).items
                 /\ raised.in = "extract_nodes" =>
                        /\ ~C11_Accepted(test_data.value)
                        /\ raised.error = "ValueError"
            ELSE raised = Raised("extract_nodes", "ValueError")

\* C12: compute_metrics and compute_extended_metrics raise nothing on nodes
\* that lack any subset of the optional fields, a node without a name that
\* has partners, divorced or siblings entries included; an absent sex reads
\* as UNKNOWN.
C12_AbsentFieldsTolerated ==
    /\ raised = NotRaised
    /\ \A i \in DOMAIN golden_nodes :
           golden_nodes[i].sex = NoneName =>
               Get(golden_ext.gender_and_naming.gender_distribution, "UNKNOWN", 0) >= 1

\* the node with every malformed field taken away
C13_Cleaned(n) ==
    [n EXCEPT !.partners = IF n.partners_type = "list" THEN n.partners ELSE <<>>,
              !.partners_type = "list",
              !.divorced = IF n.divorced_type = "list" THEN n.divorced ELSE <<>>,
              !.divorced_type = "list",
              !.siblings = IF n.siblings_type = "list" THEN n.siblings ELSE <<>>,
              !.siblings_type = "list",
              !.shading = IF n.shading[1] \in {"str", "list"} THEN n.shading ELSE NoShading]

\* C13: partners, divorced or siblings that are no list, and a shading that is
\* neither a string nor a list, make no function fail and count as absent:
\* the metrics are those of the document with these fields taken away.
C13_MalformedAsAbsent ==
    LET cleaned == [i \in DOMAIN golden_nodes |-> C13_Cleaned(golden_nodes[i])]
    IN  /\ raised = NotRaised
        /\ golden_metrics = Metrics(variant, cleaned)
        /\ golden_ext = Ext(variant, cleaned)

\* load_json_file or extract_nodes fails on the file
C14_Unreadable(file) ==
    \/ load_json_file(file).error # "none"
    \/ extract_nodes(load_json_file(file).value).error # "none"

\* C14: a pair one of whose documents cannot be loaded or extracted is
\* recorded as 'Error' and never as a number; a pair compared with success
\* is recorded with its score, 0.0 included; and after a failure the loop
\* goes on with the next index.
C14_BatchFailures ==
    /\ (pair_index >= 1 /\ golden_data.kind # "missing" /\ test_data.kind # "missing") =>
           LET row == results[Len(results)]
           IN  /\ row.index = pair_index
               /\ (C14_Unreadable(golden_data) \/ C14_Unreadable(test_data))
                      => row.score = ErrorCell
               /\ raised = NotRaised => row.score = NumberCell(score_data.final_score)
    /\ pair_index < MaxPairs => ENABLED BatchIteration(BatchFiles)

\* a failed pair followed by a pair that scores 0.0
C14_Witness ==
    /\ Len(results) = 2
    /\ results[1].score = ErrorCell
    /\ results[2].score = NumberCell(RInt(0))
    /\ score_data.final_score = RInt(0)

C16_Scored(ext) ==
    <<ext.structural.generations_count, ext.structural.nodes_per_level,
      ext.gender_and_naming.gender_distribution,
      ext.partnerships.partnerships_count, ext.partnerships.divorces_count,
      ext.shading.disease_counts, ext.symbols.symbol_counts, ext.edges>>

\* the fields it does not read
C16_Rest(ext) ==
    <<ext.consistency_checks, ext.spatial, ext.structural.root_nodes_count,
      ext.structural.leaf_nodes_count, ext.partnerships.max_partners_for_single_node,
      ext.parent_child_and_siblings>>

\* C16: the candidate snapshot and a second candidate (the golden snapshot
\* itself) that differ only in consistency_checks, spatial and the other
\* fields the scorer does not read get the same breakdown against the
\* golden snapshot; and the breakdown of any candidate is the one of the
\* candidate with those fields replaced.
C16_UnscoredSections ==
    raised = NotRaised =>
        /\ C16_Scored(test_ext) = C16_Scored(golden_ext) =>
               score_data = Score(variant, golden_metrics, test_metrics,
                                  golden_ext, golden_ext)
        /\ score_data =
               Score(variant, golden_metrics, test_metrics, golden_ext,
                     [test_ext EXCEPT !.consistency_checks = golden_ext.consistency_checks,
                                      !.spatial = golden_ext.spatial,
                                      !.structural.root_nodes_count = 0,
                                      !.structural.leaf_nodes_count = 0,
                                      !.partnerships.max_partners_for_single_node = 0,
                                      !.parent_child_and_siblings.sibling_groups_count = 0])

\* golden and candidate agree on every scored field and differ in their
\* overlapping boxes, their canvas and their consistency issues
C16_Witness ==
    /\ raised = NotRaised
    /\ C16_Scored(test_ext) = C16_Scored(golden_ext)
    /\ test_ext.spatial.overlapping_boxes_count # golden_ext.spatial.overlapping_boxes_count
    /\ test_ext.spatial.canvas_bounds.min_x = IntLevel(0)
    /\ golden_ext.spatial.canvas_bounds.min_x = IntLevel(5)
    /\ test_ext.consistency_checks # golden_ext.consistency_checks
    /\ golden_ext.consistency_checks.sibling_asymmetry # {}
    /\ score_data = Score(variant, golden_metrics, test_metrics, golden_ext, golden_ext)

\* the unordered pairs {a, b} of two different names such that a node named
\* a has b in its partners list
C17_ListedPairs(nodes) ==
    LET names == {x \in UNION {{nodes[i].name} \cup Range(nodes[i].partners) :
                               i \in DOMAIN nodes} : Truthy(x)}
    IN  {pair \in SUBSET names :
            /\ Cardinality(pair) = 2
            /\ \E a \in pair, i \in DOMAIN nodes :
                  /\ nodes[i].name = a
                  /\ IsList(nodes[i].partners_type)
                  /\ (pair \ {a}) \subseteq Range(nodes[i].partners)}

\* C17: partnerships_count is the number of unordered pairs of two different
\* names one of which lists the other as partner, whatever the direction
\* and however often the pair is listed.
C17_PartnershipsCount ==
    golden_ext.partnerships.partnerships_count = Cardinality(C17_ListedPairs(golden_nodes))

\* A and B list each other, A lists itself, and a second node named A lists C:
\* two partnerships
C17_Witness ==
    /\ golden_ext.partnerships.partnerships_count = 2
    /\ \E i, j \in DOMAIN golden_nodes :
          /\ golden_nodes[i].name \in Range(golden_nodes[j].partners)
          /\ golden_nodes[j].name \in Range(golden_nodes[i].partners)
          /\ golden_nodes[i].name # golden_nodes[j].name
    /\ \E i \in DOMAIN golden_nodes :
          golden_nodes[i].name \in Range(golden_nodes[i].partners)
    /\ \E i, j \in DOMAIN golden_nodes :
          /\ i # j
          /\ golden_nodes[i].name = golden_nodes[j].name
          /\ golden_nodes[j].partners = <<"C">>

\* the unordered pairs {a, b} of two different non-empty names such that a
\* node named a has b in its divorced list
C18_ListedPairs(nodes) ==
    LET names == {x \in UNION {{nodes[i].name} \cup Range(nodes[i].divorced) :
                               i \in DOMAIN nodes} : Truthy(x)}
    IN  {pair \in SUBSET names :
            /\ Cardinality(pair) = 2
            /\ \E a \in pair, i \in DOMAIN nodes :
                  /\ nodes[i].name = a
                  /\ IsList(nodes[i].divorced_type)
                  /\ (pair \ {a}) \subseteq Range(nodes[i].divorced)}

\* C18: divorces_count is the number of unordered pairs of two different
\* non-empty names one of which lists the other as divorced; what a node
\* without a name lists adds no pair.
C18_DivorcesCount ==
    /\ raised = NotRaised
    /\ golden_ext.partnerships.divorces_count = Cardinality(C18_ListedPairs(golden_nodes))

\* the same, for the documents on which compute_extended_metrics returns
C18_DivorcesCountReturned ==
    raised = NotRaised =>
        golden_ext.partnerships.divorces_count = Cardinality(C18_ListedPairs(golden_nodes))

\* |golden count - candidate count| of the count f
C19_Diff(f) ==
    Abs(FieldValue(golden_metrics, golden_ext, f) - FieldValue(test_metrics, test_ext, f))

\* 0, 5 or 15 for a difference of 0, 1, or 2 and more
C19_Step(d) == IF d = 0 THEN 0 ELSE IF d = 1 THEN 5 ELSE 15

\* (the highest level >= 0 that either graph has nodes at) + 1, and 1 if
\* there is none
C19_TotalLevels ==
    LET levels == {l \in 0..2 :
                      IntLevel(l) \in DOMAIN golden_ext.structural.nodes_per_level
                                      \cup DOMAIN test_ext.structural.nodes_per_level}
    IN  IF levels = {} THEN 1
        ELSE (CHOOSE m \in levels : \A l \in levels : l <= m) + 1

\* C19: tier1_deductions is the step of the generations difference, plus 2
\* times the level differences weighted per level over totalLevels levels,
\* plus 5 per MALE or FEMALE difference, plus 1 per MISCARRIAGE difference.
C19_Tier1Formula ==
    LET T == C19_TotalLevels
        weighted == [l \in 0..(T - 1) |->
                        RMul(RInt(C19_Diff(<<"level", IntLevel(l)>>)),
                             calculate_generation_weight(l, T))]
    IN  score_data.tier1_deductions =
            RAdd(RInt(C19_Step(C19_Diff(<<"generations", "generations_count">>))
                      + 5 * (C19_Diff(<<"gender", "MALE">>) + C19_Diff(<<"gender", "FEMALE">>))
                      + C19_Diff(<<"gender", "MISCARRIAGE">>)),
                 RMul(RInt(2), SumOver(weighted, 0..(T - 1))))

\* a FEMALE difference of 1 and a difference of 1 at level 2 of 3 levels:
\* 5 + 2 * 25/91
C19_Witness ==
    /\ C19_Diff(<<"gender", "FEMALE">>) = 1
    /\ C19_Diff(<<"level", IntLevel(2)>>) = 1
    /\ C19_TotalLevels = 3
    /\ score_data.tier1_deductions = Rat(505, 91)

\* |golden count - candidate count| of the metrics or partnerships count key
C20_Diff(section, key) ==
    IF <<section, key>> \in Tier2Fields(variant) THEN C19_Diff(<<section, key>>) ELSE 0

----------------------------------------------------------------------------
(* The scorer in floating point.  The scorer adds the per-level errors in  *)
(* the order its loop meets the levels, and rounds after every operation;   *)
(* the loop runs over a set, so the order is the order of the set's table. *)

\* bits of the significand the results are rounded to here; a double of the
\* program carries 53
MantissaBits == 8

\* the least e >= 0 with 2^(MantissaBits-1) <= r * 2^e, for 0 < r < 2^MantissaBits
FloatExponent(r) ==
    CHOOSE e \in 0..30 :
        /\ r.num * Pow(2, e) >= Pow(2, MantissaBits - 1) * r.den
        /\ \A d \in 0..(e - 1) : r.num * Pow(2, d) < Pow(2, MantissaBits - 1) * r.den

\* the floating-point number nearest to r >= 0, ties to the even significand
FloatRound(r) ==
    IF r.num = 0 THEN r
    ELSE LET exponent == FloatExponent(r)
             scaled   == r.num * Pow(2, exponent)
             q        == scaled \div r.den
             rem      == scaled % r.den
             up       == 2 * rem > r.den \/ (2 * rem = r.den /\ q % 2 = 1)
         IN  Rat(IF up THEN q + 1 ELSE q, Pow(2, exponent))

\* a + b and a * b of two floating-point numbers
FloatAdd(a, b) == FloatRound(RAdd(a, b))

FloatMul(a, b) == FloatRound(RMul(a, b))

\* the table of a set of small integers: 8 slots, -1 in an empty one
EmptyTable == [i \in 0..7 |-> -1]

RECURSIVE Probe(_, _)
\* the slot a key comes to rest in: the first free one of i, 5i + 1, ...
Probe(table, i) == IF table[i] = -1 THEN i ELSE Probe(table, (5 * i + 1) % 8)

\* set.add(key): the hash of an integer is the integer
SetAdd(table, key) ==
    IF \E i \in 0..7 : table[i] = key THEN table
    ELSE [table EXCEPT ![Probe(table, key % 8)] = key]

RECURSIVE SetAddAll(_, _)
SetAddAll(table, keys) ==
    IF keys = <<>> THEN table
    ELSE SetAddAll(SetAdd(table, Head(keys)), Tail(keys))

RECURSIVE SetIterFrom(_, _)
SetIterFrom(table, i) ==
    IF i > 7 THEN <<>>
    ELSE (IF table[i] = -1 THEN <<>> ELSE <<table[i]>>) \o SetIterFrom(table, i + 1)

\* iterating a set: its keys slot by slot
SetIter(table) == SetIterFrom(table, 0)

RECURSIVE Ascending(_)
\* the integers of S in ascending order
Ascending(S) ==
    IF S = {} THEN <<>>
    ELSE LET m == CHOOSE x \in S : \A y \in S : x <= y
         IN  <<m>> \o Ascending(S \ {m})

\* set(levels.keys()): nodes_per_level holds its keys in ascending order
SetOfKeys(levels) == SetAddAll(EmptyTable, Ascending({lvl[2] : lvl \in DOMAIN levels}))

\* a | b: a copy of a that the keys of b are added to as b yields them; the
\* copy of an empty a is the table of b
SetUnion(a, b) == IF a = EmptyTable THEN b ELSE SetAddAll(a, SetIter(b))

\* the order in which `for level in all_levels` meets the levels
AllLevelsOrder(golden_levels, test_levels) ==
    SetIter(SetUnion(SetOfKeys(golden_levels), SetOfKeys(test_levels)))

\* the nodes a level holds at most in the snapshots explored
MaxLevelCount == 2

\* the levels of the snapshots: 0 and 8 share a slot of the table
SwapLevels == {0, 1, 8}

\* calculate_generation_weight(level, total_levels) as the floating-point
\* number it returns, for the levels of SwapLevels
FloatWeight ==
    [total_levels \in {l + 1 : l \in SwapLevels} |->
        [level \in {l \in SwapLevels : l < total_levels} |->
            FloatRound(calculate_generation_weight(level, total_levels))]]

RECURSIVE FloatWeightedLevelError(_, _, _, _, _)
\* weighted_level_error += diff * weight, level after level of order
FloatWeightedLevelError(order, golden_levels, test_levels, total_levels, acc) ==
    IF order = <<>> THEN acc
    ELSE LET lvl    == Head(order)
             diff   == Abs(Get(golden_levels, IntLevel(lvl), 0)
                           - Get(test_levels, IntLevel(lvl), 0))
             weight == FloatWeight[total_levels][lvl]
         IN  FloatWeightedLevelError(Tail(order), golden_levels, test_levels, total_levels,
                                     FloatAdd(acc, FloatMul(RInt(diff), weight)))

\* the first tier, every += rounded
FloatTier1Deductions(golden_ext_, test_ext_) ==
    LET generations_diff == Abs(golden_ext_.structural.generations_count
                                - test_ext_.structural.generations_count)
        weighted_level_error ==
            FloatWeightedLevelError(
                AllLevelsOrder(golden_ext_.structural.nodes_per_level,
                               test_ext_.structural.nodes_per_level),
                golden_ext_.structural.nodes_per_level,
                test_ext_.structural.nodes_per_level,
                TotalLevels(golden_ext_.structural.nodes_per_level,
                            test_ext_.structural.nodes_per_level),
                RInt(0))
        golden_gender == golden_ext_.gender_and_naming.gender_distribution
        test_gender   == test_ext_.gender_and_naming.gender_distribution
        mf_diff == Abs(Get(golden_gender, "MALE", 0) - Get(test_gender, "MALE", 0))
                   + Abs(Get(golden_gender, "FEMALE", 0) - Get(test_gender, "FEMALE", 0))
        miscarriage_diff == Abs(Get(golden_gender, "MISCARRIAGE", 0)
                                - Get(test_gender, "MISCARRIAGE", 0))
        after_generations == FloatRound(RInt(GenerationStep(generations_diff)))
        after_levels      == FloatAdd(after_generations,
                                      FloatMul(weighted_level_error, RInt(2)))
        after_people      == FloatAdd(after_levels, RInt(mf_diff * 5))
    IN  FloatAdd(after_people, RInt(miscarriage_diff * 1))

\* calculate_comprehensive_score of module v, every operation rounded
FloatScore(v, gm, tm, ge, te) ==
    LET w1 == IF v = "pedigree_scoring" THEN 50 ELSE 63
        w2 == IF v = "pedigree_scoring" THEN 40 ELSE 26
        w3 == IF v = "pedigree_scoring" THEN 10 ELSE 11
        tier1_deductions == FloatTier1Deductions(ge, te)
        tier2_deductions == FloatRound(IF v = "pedigree_scoring"
                                       THEN Tier2Deductions(gm, tm)
                                       ELSE comparator_Tier2Deductions(gm, tm, ge, te))
        tier3_deductions == FloatRound(Tier3Deductions(ge, te))
        total_deductions ==
            FloatAdd(FloatAdd(FloatMul(tier1_deductions, FloatRound(Rat(w1, 100))),
                              FloatMul(tier2_deductions, FloatRound(Rat(w2, 100)))),
                     FloatMul(tier3_deductions, FloatRound(Rat(w3, 100))))
    IN  [final_score      |-> IF RLe(RInt(100), total_deductions) THEN RInt(0)
                              ELSE FloatRound(RSub(RInt(100), total_deductions)),
         tier1_deductions |-> tier1_deductions,
         tier2_deductions |-> tier2_deductions,
         tier3_deductions |-> tier3_deductions,
         total_deductions |-> total_deductions,
         tier1_weighted   |-> FloatMul(tier1_deductions, FloatRound(Rat(63, 100))),
         tier2_weighted   |-> FloatMul(tier2_deductions, FloatRound(Rat(26, 100))),
         tier3_weighted   |-> FloatMul(tier3_deductions, FloatRound(Rat(11, 100)))]

\* the snapshot ext with count nodes at level l: generations_count is the
\* number of its levels
WithLevel(ext, l, count) ==
    LET levels == DictSet(ext.structural.nodes_per_level, IntLevel(l), count)
    IN  [ext EXCEPT !.structural.nodes_per_level = levels,
                    !.structural.generations_count = Cardinality(DOMAIN levels)]

\* the number of levels of the two snapshots together; up to 4 the two sets
\* of levels and their union keep a table of 8 slots
LevelKeys(ext1, ext2) ==
    Cardinality(DOMAIN ext1.structural.nodes_per_level)
    + Cardinality(DOMAIN ext2.structural.nodes_per_level)

\* the scorer is called with one level of the golden snapshot changed
FloatScoreGoldenChanged ==
    \E l \in SwapLevels : \E count \in 0..MaxLevelCount :
        /\ WithLevel(golden_ext, l, count) # golden_ext
        /\ LevelKeys(WithLevel(golden_ext, l, count), test_ext) <= 4
        /\ golden_ext' = WithLevel(golden_ext, l, count)
        /\ score_data' = FloatScore(variant, golden_metrics, test_metrics,
                                    WithLevel(golden_ext, l, count), test_ext)
        /\ UNCHANGED <<variant, golden_nodes, test_nodes, golden_metrics, test_metrics,
                       test_ext, weightVars, driverVars>>

\* the scorer is called with one level of the candidate snapshot changed
FloatScoreTestChanged ==
    \E l \in SwapLevels : \E count \in 0..MaxLevelCount :
        /\ WithLevel(test_ext, l, count) # test_ext
        /\ LevelKeys(golden_ext, WithLevel(test_ext, l, count)) <= 4
        /\ test_ext' = WithLevel(test_ext, l, count)
        /\ score_data' = FloatScore(variant, golden_metrics, test_metrics,
                                    golden_ext, WithLevel(test_ext, l, count))
        /\ UNCHANGED <<variant, golden_nodes, test_nodes, golden_metrics, test_metrics,
                       golden_ext, weightVars, driverVars>>

\* the scorer is called again with the two graphs exchanged
FloatScoreSwapped ==
    /\ golden_ext # test_ext
    /\ golden_ext' = test_ext
    /\ test_ext' = golden_ext
    /\ golden_metrics' = test_metrics
    /\ test_metrics' = golden_metrics
    /\ score_data' = FloatScore(variant, test_metrics, golden_metrics, test_ext, golden_ext)
    /\ UNCHANGED <<variant, golden_nodes, test_nodes, weightVars, driverVars>>

SwapNext == FloatScoreGoldenChanged \/ FloatScoreTestChanged \/ FloatScoreSwapped

SpecSwap == ScoreInit /\ [][SwapNext]_vars

----------------------------------------------------------------------------
(* Documents of pedigree_core that differ in nodes no tier looks at.       *)

MaxExtraNodes == 4

\* a man at the top level, a woman one level down, and two nodes of level 0
\* that are not at the top level: one without sex, one of sex "U"
ExtraNodes ==
    {[BlankNode EXCEPT !.level = IntLevel(0), !.top_level = TRUE, !.sex = "M"],
     [BlankNode EXCEPT !.level = IntLevel(1), !.sex = "F"],
     [BlankNode EXCEPT !.level = IntLevel(0)],
     [BlankNode EXCEPT !.level = IntLevel(0), !.sex = "U"]}

ExtraNext ==
    \/ GoldenGrows(ExtraNodes, MaxExtraNodes)
    \/ TestGrows(ExtraNodes, MaxExtraNodes)

SpecExtra == CoreInit /\ [][ExtraNext]_vars

----------------------------------------------------------------------------
(* Documents whose nodes have a level that is absent or negative.          *)

\* nodes without a level, of the levels -1 and -2, at the top of level 0 and
\* of the levels 1 and 2
OddLevelNodes ==
    {[BlankNode EXCEPT !.level = l, !.top_level = (l = IntLevel(0))] :
        l \in {NoneLevel, IntLevel(-1), IntLevel(-2), IntLevel(0), IntLevel(1), IntLevel(2)}}

OddLevelsNext ==
    \/ GoldenGrows(OddLevelNodes, MaxCounterNodes)
    \/ TestGrows(OddLevelNodes, MaxCounterNodes)

SpecOddLevels == CompareInit /\ [][OddLevelsNext]_vars

----------------------------------------------------------------------------
(* One document of pedigree_core whose nodes share names and refer to      *)
(* nodes that are not there.                                               *)

MaxOrderNodes == 3

\* two nodes named A, two named B, a node without name and a node C; Z is
\* the name of no node
OrderNodes ==
    {[BlankNode EXCEPT !.name = "A", !.level = IntLevel(0), !.top_level = TRUE, !.sex = "M",
                       !.partners = <<"B">>, !.shading = ShadingStr(Lower(W_FILLED)),
                       !.dztwin = <<"int", 1>>],
     [BlankNode EXCEPT !.name = "A", !.level = IntLevel(1), !.sex = "F",
                       !.partners = <<"C">>, !.divorced = <<"B">>, !.father = "Z",
                       !.status = 1],
     [BlankNode EXCEPT !.name = "B", !.partners = <<"A">>, !.divorced = <<"A">>,
                       !.mother = "A", !.siblings = <<"A", "C">>, !.miscarriage = TRUE],
     [BlankNode EXCEPT !.name = "B", !.level = IntLevel(0), !.sex = "F",
                       !.shading = ShadingList(<<Written(P_cross_hatch, "-", FALSE),
                                                 Lower(W_FILLED)>>),
                       !.adopted_in = TRUE, !.mztwin = <<"int", 1>>, !.noparents = TRUE],
     [BlankNode EXCEPT !.partners = <<"A">>],
     [BlankNode EXCEPT !.name = "C", !.level = IntLevel(1), !.sex = "M",
                       !.partners = <<"A", "B">>, !.siblings = <<"A">>,
                       !.father = "A", !.mother = "B", !.proband = TRUE]}

OrderNext == GoldenGrows(OrderNodes, MaxOrderNodes)

SpecOrder == CoreInit /\ [][OrderNext]_vars

----------------------------------------------------------------------------
(* Claims about the third tier, the counters of a document and the order   *)
(* of the arguments and of the nodes                                       *)

\* C21: tier3_deductions is 1 per difference of each disease pattern of
\* either graph, plus 2 per Deceased, Adopted_in and Adopted_out difference,
\* plus 1 per dztwin_count and mztwin_count difference; a key missing on one
\* side counts 0, and Divorce, Patient and Carrier are not charged.
C21_Tier3Formula ==
    score_data.tier3_deductions =
        RInt(C19_Diff(<<"disease", Tok(<<W_SQUARE, W_FILLED>>)>>)
             + C19_Diff(<<"disease", Tok(<<W_CIRCLE, W_HATCH>>)>>)
             + 2 * (C19_Diff(<<"symbol", "Deceased">>) + C19_Diff(<<"symbol", "Adopted_in">>)
                    + C19_Diff(<<"symbol", "Adopted_out">>))
             + C19_Diff(<<"edges", "dztwin_count">>) + C19_Diff(<<"edges", "mztwin_count">>))

\* the golden graph has one Divorce symbol and the candidate none, and one
\* pattern of the candidate is missing from the golden graph: 1 in all
C21_Witness ==
    /\ Get(golden_ext.symbols.symbol_counts, "Divorce", 0) = 1
    /\ "Divorce" \notin DOMAIN test_ext.symbols.symbol_counts
    /\ Tok(<<W_CIRCLE, W_HATCH>>) \notin DOMAIN golden_ext.shading.disease_counts
    /\ Get(test_ext.shading.disease_counts, Tok(<<W_CIRCLE, W_HATCH>>), 0) = 1
    /\ score_data.tier3_deductions = RInt(1)

\* the nodes of the golden document whose siblings field is a list of
\* lo..hi names
C22_WithSiblings(lo, hi) ==
    Cardinality({i \in DOMAIN golden_nodes :
                    /\ golden_nodes[i].siblings_type = "list"
                    /\ Len(golden_nodes[i].siblings) \in lo..hi})

\* C22: nodes_with_siblings counts the nodes with a non-empty siblings list
\* and each of them is counted in the one bucket of its list length, so the
\* five buckets sum to nodes_with_siblings, which is at most total_nodes.
C22_SiblingBuckets ==
    /\ golden_metrics["nodes_with_siblings"] = C22_WithSiblings(1, 6)
    /\ golden_metrics["nodes_with_1_sibling"] = C22_WithSiblings(1, 1)
    /\ golden_metrics["nodes_with_2_siblings"] = C22_WithSiblings(2, 2)
    /\ golden_metrics["nodes_with_3_siblings"] = C22_WithSiblings(3, 3)
    /\ golden_metrics["nodes_with_4_siblings"] = C22_WithSiblings(4, 4)
    /\ golden_metrics["nodes_with_5_or_more_siblings"] = C22_WithSiblings(5, 6)
    /\ golden_metrics["nodes_with_siblings"] =
           golden_metrics["nodes_with_1_sibling"] + golden_metrics["nodes_with_2_siblings"]
           + golden_metrics["nodes_with_3_siblings"] + golden_metrics["nodes_with_4_siblings"]
           + golden_metrics["nodes_with_5_or_more_siblings"]
    /\ golden_metrics["nodes_with_siblings"] <= golden_metrics["total_nodes"]

\* three nodes: four siblings, six siblings, and a siblings field that is no
\* list
C22_Witness ==
    /\ golden_metrics["total_nodes"] = 3
    /\ golden_metrics["nodes_with_siblings"] = 2
    /\ golden_metrics["nodes_with_4_siblings"] = 1
    /\ golden_metrics["nodes_with_5_or_more_siblings"] = 1
    /\ \E i \in DOMAIN golden_nodes : golden_nodes[i].siblings_type = "str"

\* the number of golden nodes with the miscarriage flag as given and, if sexes
\* is not empty, a sex in it
C23_Count(flag, sexes, others) ==
    Cardinality({i \in DOMAIN golden_nodes :
                    /\ golden_nodes[i].miscarriage = flag
                    /\ IF others THEN golden_nodes[i].sex \notin sexes
                       ELSE sexes = {} \/ golden_nodes[i].sex \in sexes})

\* C23: gender_distribution counts under MISCARRIAGE the nodes with the
\* miscarriage flag, whatever their sex, and the others under MALE for sex
\* "M", FEMALE for sex "F" and UNKNOWN for any other or no sex; it has no
\* other key and its counts sum to the number of nodes.
C23_GenderClasses ==
    LET gender_dist == golden_ext.gender_and_naming.gender_distribution
    IN  /\ DOMAIN gender_dist \subseteq {"MALE", "FEMALE", "UNKNOWN", "MISCARRIAGE"}
        /\ Get(gender_dist, "MISCARRIAGE", 0) = C23_Count(TRUE, {}, FALSE)
        /\ Get(gender_dist, "MALE", 0) = C23_Count(FALSE, {"M"}, FALSE)
        /\ Get(gender_dist, "FEMALE", 0) = C23_Count(FALSE, {"F"}, FALSE)
        /\ Get(gender_dist, "UNKNOWN", 0) = C23_Count(FALSE, {"M", "F"}, TRUE)
        /\ SumInt(gender_dist, DOMAIN gender_dist) = Len(golden_nodes)

\* a miscarriage of sex "M", a node of sex "m" and a node of sex "F"
C23_Witness ==
    /\ golden_ext.gender_and_naming.gender_distribution =
           [k \in {"MISCARRIAGE", "UNKNOWN", "FEMALE"} |-> 1]
    /\ \E i \in DOMAIN golden_nodes :
          golden_nodes[i].miscarriage /\ golden_nodes[i].sex = "M"
    /\ \E i \in DOMAIN golden_nodes : golden_nodes[i].sex = "m"

\* the count reported for a symbol: a symbol that is no key of symbol_counts
\* is reported as 0
C24_Reported(sy) == Get(golden_ext.symbols.symbol_counts, sy, 0)

\* C24: each symbol is counted from its own field, node by node: Deceased
\* from status = 1, Adopted_in, Adopted_out and Patient from the adopted_in,
\* adopted_out and proband flags, Divorce from a non-empty divorced list; and
\* Carrier is 0 whatever the nodes hold.
C24_SymbolCounts ==
    /\ C24_Reported("Deceased") =
           Cardinality({i \in DOMAIN golden_nodes : golden_nodes[i].status = 1})
    /\ C24_Reported("Adopted_in") =
           Cardinality({i \in DOMAIN golden_nodes : golden_nodes[i].adopted_in})
    /\ C24_Reported("Adopted_out") =
           Cardinality({i \in DOMAIN golden_nodes : golden_nodes[i].adopted_out})
    /\ C24_Reported("Patient") =
           Cardinality({i \in DOMAIN golden_nodes : golden_nodes[i].proband})
    /\ C24_Reported("Divorce") =
           Cardinality({i \in DOMAIN golden_nodes :
                           /\ golden_nodes[i].divorced_type = "list"
                           /\ Len(golden_nodes[i].divorced) > 0})
    /\ C24_Reported("Carrier") = 0

\* a node with every field set, a node with a carrier field only, and a node
\* with status 2
C24_Witness ==
    /\ Len(golden_nodes) = 3
    /\ \E i \in DOMAIN golden_nodes :
          golden_nodes[i].carrier /\ golden_nodes[i].status = 1 /\ golden_nodes[i].proband
    /\ \E i \in DOMAIN golden_nodes : golden_nodes[i].carrier /\ golden_nodes[i].status = 0
    /\ \E i \in DOMAIN golden_nodes : golden_nodes[i].status = 2
    /\ golden_ext.symbols.symbol_counts =
           [sy \in {"Deceased", "Adopted_in", "Adopted_out", "Patient", "Divorce"} |-> 1]

\* C25: dztwin_count and mztwin_count are the numbers of nodes whose dztwin
\* and mztwin field is the number 1; a node whose flag is true, 2 or "1" is
\* not counted.
C25_TwinCounts ==
    /\ golden_ext.edges.dztwin_count =
           Cardinality({i \in DOMAIN golden_nodes : golden_nodes[i].dztwin = <<"int", 1>>})
    /\ golden_ext.edges.mztwin_count =
           Cardinality({i \in DOMAIN golden_nodes : golden_nodes[i].mztwin = <<"int", 1>>})

\* the same with the flag true counted as the number 1 is
C25_TwinCountsEqualOne ==
    /\ golden_ext.edges.dztwin_count =
           Cardinality({i \in DOMAIN golden_nodes :
                           golden_nodes[i].dztwin \in {<<"int", 1>>, <<"bool", TRUE>>}})
    /\ golden_ext.edges.mztwin_count =
           Cardinality({i \in DOMAIN golden_nodes :
                           golden_nodes[i].mztwin \in {<<"int", 1>>, <<"bool", TRUE>>}})


\* C26: the score is symmetric in its two graphs: the call with the graphs
\* exchanged returns the same tier1_deductions, tier2_deductions,
\* tier3_deductions, total_deductions and final_score.
C26_Symmetric ==
    [][(golden_ext' = test_ext /\ test_ext' = golden_ext
        /\ golden_metrics' = test_metrics /\ test_metrics' = golden_metrics)
       => /\ score_data'.tier1_deductions = score_data.tier1_deductions
          /\ score_data'.tier2_deductions = score_data.tier2_deductions
          /\ score_data'.tier3_deductions = score_data.tier3_deductions
          /\ score_data'.total_deductions = score_data.total_deductions
          /\ score_data'.final_score = score_data.final_score]_vars

\* the two integer tiers are the same whichever graph comes first
C26_IntegerTiersSymmetric ==
    [][(golden_ext' = test_ext /\ test_ext' = golden_ext
        /\ golden_metrics' = test_metrics /\ test_metrics' = golden_metrics)
       => /\ score_data'.tier2_deductions = score_data.tier2_deductions
          /\ score_data'.tier3_deductions = score_data.tier3_deductions]_vars


\* a node of level 0 that is not at the top level, is no miscarriage and
\* has no sex "M" or "F"
C27_Extra(n) ==
    /\ n.level = IntLevel(0) /\ ~n.top_level
    /\ ~n.miscarriage /\ n.sex \notin {"M", "F"}

\* the other nodes of a document
RECURSIVE C27_Scored(_)
C27_Scored(nodes) ==
    IF nodes = <<>> THEN <<>>
    ELSE (IF C27_Extra(Head(nodes)) THEN <<>> ELSE <<Head(nodes)>>)
         \o C27_Scored(Tail(nodes))

\* the score of the golden snapshots with total_nodes and the UNKNOWN count
\* set to count, against the candidate's
C27_Rescored(count) ==
    Score(variant, [golden_metrics EXCEPT !["total_nodes"] = count], test_metrics,
          [golden_ext EXCEPT !.gender_and_naming.gender_distribution =
                                 DictSet(@, "UNKNOWN", count)],
          test_ext)

\* C27: in pedigree_scoring total_nodes and the UNKNOWN gender count enter no
\* tier: the score is the same whatever the two counts are, so two graphs that
\* differ only in nodes without sex at level 0 that are not at the top level
\* score 100 with every tier at 0, however many nodes each has.
C27_NoTier ==
    /\ \A count \in {0, 1, LargeCount} : C27_Rescored(count) = score_data
    /\ C27_Scored(golden_nodes) = C27_Scored(test_nodes) =>
           /\ score_data.final_score = RInt(100)
           /\ score_data.tier1_deductions = RInt(0)
           /\ score_data.tier2_deductions = RInt(0)
           /\ score_data.tier3_deductions = RInt(0)

\* a golden graph of one man against a candidate with two more
\* nodes, both of level 0 and not at the top level, scoring 100
C27_Witness ==
    /\ Len(golden_nodes) = 1
    /\ Len(test_nodes) = 3
    /\ C27_Scored(test_nodes) = golden_nodes
    /\ golden_metrics["total_nodes"] # test_metrics["total_nodes"]
    /\ Get(golden_ext.gender_and_naming.gender_distribution, "UNKNOWN", 0)
           # Get(test_ext.gender_and_naming.gender_distribution, "UNKNOWN", 0)
    /\ score_data.final_score = RInt(100)


\* the number of nodes of level l in a document
C28_At(nodes, l) == Cardinality({i \in DOMAIN nodes : nodes[i].level = l})

\* the levels of a document
C28_Levels(nodes) == {nodes[i].level : i \in DOMAIN nodes}

\* the levels that are integers >= 0, as numbers
C28_Weighted(nodes) ==
    {l \in 0..2 : IntLevel(l) \in C28_Levels(nodes)}

\* 1 + the highest level >= 0 of either document, 1 if there is none
C28_TotalLevels ==
    LET ls == C28_Weighted(golden_nodes) \cup C28_Weighted(test_nodes)
    IN  IF ls = {} THEN 1 ELSE 1 + CHOOSE m \in ls : \A l \in ls : l <= m

\* the per-level error over the levels 0, 1 and 2 alone
C28_LevelError ==
    SumOver([l \in 0..2 |->
                RMul(RInt(Abs(C28_At(golden_nodes, IntLevel(l))
                              - C28_At(test_nodes, IntLevel(l)))),
                     calculate_generation_weight(l, C28_TotalLevels))],
            0..2)

\* the step penalty for the difference in the number of levels, the levels
\* None, -1 and -2 among them
C28_Step ==
    LET d == Abs(Cardinality(C28_Levels(golden_nodes)) - Cardinality(C28_Levels(test_nodes)))
    IN  IF d = 0 THEN 0 ELSE IF d = 1 THEN 5 ELSE 15

\* C28: nodes whose level is absent or negative are a level of their own in
\* generations_count and nodes_per_level, and so count for the step penalty;
\* the scorer skips their level keys: they add nothing to the weighted
\* per-level error and have no part in totalLevels.
C28_OddLevels ==
    /\ golden_ext.structural.generations_count = Cardinality(C28_Levels(golden_nodes))
    /\ test_ext.structural.generations_count = Cardinality(C28_Levels(test_nodes))
    /\ \A l \in {NoneLevel, IntLevel(-1), IntLevel(-2)} :
          /\ Get(golden_ext.structural.nodes_per_level, l, 0) = C28_At(golden_nodes, l)
          /\ Get(test_ext.structural.nodes_per_level, l, 0) = C28_At(test_nodes, l)
    /\ score_data.tier1_deductions =
           RAdd(RInt(C28_Step), RMul(RInt(2), C28_LevelError))

\* a golden graph with a node without level and a node of level -1 against a
\* candidate of one node of level 1: one level more, a step penalty of 5
\* and a per-level error for level 1 only
C28_Witness ==
    /\ C28_Levels(golden_nodes) = {NoneLevel, IntLevel(-1)}
    /\ C28_Levels(test_nodes) = {IntLevel(1)}
    /\ golden_ext.structural.generations_count = 2
    /\ score_data.tier1_deductions =
           RAdd(RInt(5), RMul(RInt(2), calculate_generation_weight(1, 2)))


\* the sequences that hold the nodes of a document in another order
C29_Orders(nodes) ==
    {[i \in DOMAIN nodes |-> nodes[p[i]]] : p \in Permutations(DOMAIN nodes)}

\* C29: the metrics of pedigree_core do not depend on the order of the nodes:
\* for every order of the document compute_metrics returns the same counters
\* and compute_extended_metrics the same generations_count, nodes_per_level,
\* gender_distribution, partnerships_count, divorces_count,
\* parents_completeness, disease_counts, symbol_counts and twin counts.
C29_AnyOrder ==
    \A nodes \in C29_Orders(golden_nodes) :
        /\ compute_metrics(nodes) = golden_metrics
        /\ compute_extended_metrics(nodes) = golden_ext

\* three nodes in an order that is not the only one: two of them share the
\* name A and list different partners, one of which is no node
C29_Witness ==
    /\ Len(golden_nodes) = 3
    /\ Cardinality(C29_Orders(golden_nodes)) = 6
    /\ Cardinality({i \in DOMAIN golden_nodes : golden_nodes[i].name = "A"}) = 2
    /\ golden_nodes[3].name = "B"
    /\ golden_ext.partnerships.partnerships_count = 2


\* the rows are in ascending order of index, no index twice, none above upto
C30_Ascending(rows, upto) ==
    /\ \A k \in DOMAIN rows : rows[k].index \in 1..upto
    /\ \A k \in DOMAIN rows : \A m \in DOMAIN rows : k < m => rows[k].index < rows[m].index

\* C30: the batch driver visits the indices in ascending order; its results
\* hold one row for each index whose golden and detectron files both exist,
\* in ascending order of index, and no row for another index; the row is
\* appended whether the comparison succeeded or failed; and the spreadsheet is
\* written once, after the last index, with those rows.
C30_BatchRows ==
    /\ [](/\ C30_Ascending(results, pair_index)
          /\ spreadsheet # NotWritten =>
                 pair_index = MaxPairs /\ spreadsheet = [written |-> TRUE, rows |-> results])
    /\ [][/\ pair_index' # pair_index =>
                /\ pair_index' = pair_index + 1
                /\ spreadsheet = NotWritten /\ spreadsheet' = NotWritten
                /\ IF golden_data'.kind # "missing" /\ test_data'.kind # "missing"
                   THEN /\ Len(results') = Len(results) + 1
                        /\ SubSeq(results', 1, Len(results)) = results
                        /\ results'[Len(results')].index = pair_index'
                        /\ results'[Len(results')].score =
                               (IF raised'.error = "none"
                                THEN NumberCell(score_data'.final_score) ELSE ErrorCell)
                   ELSE results' = results
          /\ spreadsheet' # spreadsheet =>
                /\ spreadsheet = NotWritten
                /\ pair_index = MaxPairs
                /\ results' = results /\ pair_index' = pair_index]_vars

\* the spreadsheet written with one row for the two indices: the first index
\* lacked a file, the comparison of the second failed
C30_Witness ==
    /\ pair_index = MaxPairs
    /\ spreadsheet # NotWritten
    /\ Len(spreadsheet.rows) = 1
    /\ spreadsheet.rows[1] = [index |-> MaxPairs, score |-> ErrorCell]
    /\ raised # NotRaised

============================================================================
